---- MODULE Spec2Model ----
(***************************************************************************)
(* Elist, a Telegram waitlist bot (src/src/bot.ts).                        *)
(*                                                                         *)
(* Every inbound update is handled by one asynchronous handler.  A handler *)
(* runs without interruption between two awaits; at an await (a store call *)
(* or a transport call) other handlers and timer callbacks may run.  One   *)
(* step of the model performs the awaited call and the synchronous code    *)
(* that follows it, up to the next await.  The outcome of a transport call *)
(* (success, or which error) is an input of the step.                      *)
(*                                                                         *)
(* The store is the PostgreSQL schema of the migration (src/src/index.ts,  *)
(* lines 24-46): two tables with SERIAL primary keys, one foreign key      *)
(* Subscriber.waitlistId -> Waitlist.id ON DELETE RESTRICT, and no other   *)
(* constraint.                                                             *)
(***************************************************************************)
EXTENDS Integers, Sequences, FiniteSets, TLC

\* ------------------------------------------------------------------ bounds
\* Commands are accepted while the next Telegram message id is at most this.
MaxMsgId == 3
\* Largest number of subscribers of the waitlist in the broadcast scenarios.
MaxSubs == 2

\* ------------------------------------------------------------------ inputs
Users == {1, 2}                 \* ctx.from.id
RegUsers == {1}                 \* the user of the registration scenarios
Groups == {-1, -2}              \* ctx.chat.id of group chats (negative ids)
Names == {"a", "b"}             \* product names
NoUsername == ""                \* ctx.from.username === undefined
UsernameOf(u) ==
    IF u = 1 THEN "alice" ELSE IF u = 3 THEN "bob" ELSE IF u = 4 THEN "carol" ELSE NoUsername
IsPrivateChat(c) == c > 0       \* ctx.chat.type === 'private' (chat id = user id)
AdminStatuses == {"creator", "administrator"}
Statuses == {"creator", "administrator", "member"}

VARIABLES
    waitlists,              \* table Waitlist: set of rows
    subscribers,            \* table Subscriber: set of rows
    nextWaitlistId,         \* SERIAL sequence of Waitlist.id
    nextSubscriberId,       \* SERIAL sequence of Subscriber.id
    verifiedUsers,          \* Set<userId>
    registrationMessages,   \* Map userId -> {messageId, chatId}
    pendingSubscriptions,   \* Map userId -> {productName, messageId, chatId}
    nextMsgId,              \* next Telegram message_id (commands and bot posts)
    handlers,               \* handlers and timer callbacks in flight, by message id
    reply,                  \* the handler that ended in the last step (its final record)
    expiredAt,              \* history: attempt (subscribe message id) -> nextMsgId when
                            \*   an expiry callback discarded it
    closed                  \* history: ids of waitlists whose /closewaitlist reported success

store == <<waitlists, subscribers, nextWaitlistId, nextSubscriberId>>
registration == <<verifiedUsers, registrationMessages, pendingSubscriptions>>
vars == <<waitlists, subscribers, nextWaitlistId, nextSubscriberId, verifiedUsers,
          registrationMessages, pendingSubscriptions, nextMsgId, handlers, reply,
          expiredAt, closed>>

\* ----------------------------------------------------------------- helpers
Put(f, k, v) == [x \in DOMAIN f \cup {k} |-> IF x = k THEN v ELSE f[x]]
Drop(f, k) == [x \in DOMAIN f \ {k} |-> f[x]]
EmptyMap == [x \in {} |-> 0]

NoWaitlist == [id |-> 0, name |-> "", chatId |-> 0, ownerUsername |-> ""]
NoMsgInfo == [messageId |-> 0, chatId |-> 0]
NoSubscription == [productName |-> "", messageId |-> 0, chatId |-> 0, resolved |-> 0]

\* The locals of one handler invocation.  Fields a handler does not use keep
\* their defaults.  solo is a history flag: no other handler or timer callback
\* has run between this handler's start and now.
NewHandler(m, kind, u, c, n, pc, solo) ==
    [id |-> m, kind |-> kind, user |-> u, chat |-> c, name |-> n, pc |-> pc,
     owner |-> "", status |-> "", waitlist |-> NoWaitlist, msgInfo |-> NoMsgInfo,
     subscription |-> NoSubscription, probe |-> "", prompted |-> 0, created |-> 0,
     deleted |-> 0, reacted |-> 0, threw |-> FALSE, subs |-> <<>>,
     attempted |-> <<>>, sentCount |-> 0, failedUsers |-> <<>>,
     outcome |-> "", solo |-> solo, caught |-> FALSE, failureReply |-> FALSE]

NoReply == NewHandler(0, "", 0, 0, "", "", FALSE)

\* Handlers and callbacks that have started and not ended (a scheduled timer
\* that has not fired yet is not running).
InFlight == {m \in DOMAIN handlers : handlers[m].pc # "timer"}
\* Another handler starts or a timer fires: the ones in flight are no longer alone.
Disturb(hs) == [m \in DOMAIN hs |-> [hs[m] EXCEPT !.solo = FALSE]]

\* A handler moves to its next await, or ends (pc = "done") and leaves.
Advance(m, rec) ==
    IF rec.pc = "done"
    THEN /\ handlers' = Drop(handlers, m)
         /\ reply' = rec
    ELSE /\ handlers' = Put(handlers, m, rec)
         /\ reply' = NoReply

\* A new update is dispatched: its handler runs its synchronous prefix.
Dispatch(rec) ==
    /\ nextMsgId' = nextMsgId + 1
    /\ IF rec.pc = "done"
       THEN /\ handlers' = Disturb(handlers)
            /\ reply' = rec
       ELSE /\ handlers' = Put(Disturb(handlers), rec.id, rec)
            /\ reply' = NoReply

CanDispatch == nextMsgId <= MaxMsgId

\* An exception left the handler: bot.catch logs it and tracks it (lines 17-24).
\* It sends nothing to the chat, so failureReply keeps its default.
BotCatch(h) == [h EXCEPT !.pc = "done", !.outcome = "error", !.threw = TRUE, !.caught = TRUE]

\* ------------------------------------------------------------------- store
\* Mutant: the lookup by name leaves the chat out.
WaitlistsByName(n, c) == {w \in waitlists : w.name = n}

\* prisma.waitlist.findFirst({ where: { name, chatId } }): the matching rows;
\* without ORDER BY the store may return any of them.
WaitlistsByNameChat(n, c) == {w \in waitlists : w.name = n /\ w.chatId = c}

\* Mutant: the lookup of an existing subscription finds nothing.
SubscribersNone(wid, u) == {}

\* prisma.subscriber.findFirst({ where: { waitlistId, userId } })
SubscribersOf(wid, u) == {s \in subscribers : s.waitlistId = wid /\ s.userId = u}

\* Mutant: the store without the foreign key.
ForeignKeyUnchecked(wid) == TRUE

\* Subscriber_waitlistId_fkey: an insert must reference an existing Waitlist row.
ForeignKeyHolds(wid) == \E w \in waitlists : w.id = wid

\* ON DELETE RESTRICT: a Waitlist row that is still referenced cannot be deleted.
DeleteRestricted(wid) == \E s \in subscribers : s.waitlistId = wid

NewSubscriber(wid, u) ==
    [id |-> nextSubscriberId, waitlistId |-> wid, userId |-> u, username |-> UsernameOf(u)]

\* prisma.subscriber.create: the row is inserted with the next SERIAL id.
InsertSubscriber(wid, u) ==
    /\ subscribers' = subscribers \cup {NewSubscriber(wid, u)}
    /\ nextSubscriberId' = nextSubscriberId + 1

\* ------------------------------------------------ checkUserRegistration etc.
\* Mutant: the deferred attempt is not stored.
PendingSetLost(h, productName) == pendingSubscriptions

\* Mutant: an attempt already stored for the user is kept.
PendingSetKeepFirst(h, productName) ==
    IF h.user \in DOMAIN pendingSubscriptions
    THEN pendingSubscriptions
    ELSE Put(pendingSubscriptions, h.user,
             [productName |-> productName, messageId |-> h.id, chatId |-> h.chat,
              resolved |-> h.waitlist.id])

\* pendingSubscriptions.set(userId, {productName, messageId, chatId}).  The field
\* resolved is history: the id of the waitlist row the handler had looked up.
PendingSet(h, productName) ==
    Put(pendingSubscriptions, h.user,
        [productName |-> productName, messageId |-> h.id, chatId |-> h.chat,
         resolved |-> h.waitlist.id])

\* The timer of setTimeout(..., 10 * 1000), scheduled for the prompt with message id p.
NewTimer(p, h) == NewHandler(p, "expiry", h.user, h.chat, "", "timer", FALSE)

\* registrationMessages.delete(userIdStr)
RegistrationDelete(u) == Drop(registrationMessages, u)

\* Mutant: the pending subscription is left in the map.
PendingKeep(u) == pendingSubscriptions

\* pendingSubscriptions.delete(userIdStr)
PendingDelete(u) == Drop(pendingSubscriptions, u)

\* Mutant: a /start in a group chat withdraws the verification.
VerifiedToggle(u, c) ==
    IF IsPrivateChat(c) THEN verifiedUsers \cup {u} ELSE verifiedUsers \ {u}

\* Mutant: a /start verifies the sender in whatever chat it arrives.
VerifiedAnyChat(u, c) == verifiedUsers \cup {u}

\* verifiedUsers.add(userIdStr), done by /start in a private chat only (line 145).
VerifiedAfterStart(u, c) ==
    IF IsPrivateChat(c) THEN verifiedUsers \cup {u} ELSE verifiedUsers

\* Mutant: the gate probes the user whatever it already knows.
GateAlwaysProbe(u) == "probe"

\* checkUserRegistration, lines 68-76: what the gate answers before any network call.
GateShortCircuit(u) ==
    IF u \in verifiedUsers THEN "true"
    ELSE IF u \in DOMAIN registrationMessages THEN "false"
    ELSE "probe"

\* Mutant: /subscribe_<cmd> stores the command name as it was typed.
ProductNameTyped(h) == h.name

\* The product name the caller hands to the gate and stores with a deferred
\* attempt: the typed name in /subscribe (line 411), waitlist.name in
\* /subscribe_<cmd> (line 498).
ProductName(h) == IF h.kind = "dynsubscribe" THEN h.waitlist.name ELSE h.name

\* The gate returned false: the caller stores the attempt and returns.
Defer(m, h, productName) ==
    /\ pendingSubscriptions' = PendingSet(h, productName)
    /\ Advance(m, [h EXCEPT !.pc = "done", !.outcome = "deferred"])

\* ------------------------------------------------- /subscribe <productName>
SubscribeCmd(u, c, n) ==
    /\ CanDispatch
    /\ Dispatch(NewHandler(nextMsgId, "subscribe", u, c, n, "sub_find", InFlight = {}))
    /\ UNCHANGED <<store, registration, expiredAt, closed>>

\* await prisma.waitlist.findFirst({ where: { name: productName, chatId } })
SubFind(m) ==
    /\ m \in DOMAIN handlers
    /\ handlers[m].pc = "sub_find"
    /\ LET h == handlers[m]
           found == WaitlistsByNameChat(h.name, h.chat)
       IN  IF found = {}
           THEN Advance(m, [h EXCEPT !.pc = "done", !.outcome = "notfound"])
           ELSE \E w \in found : Advance(m, [h EXCEPT !.pc = "sub_existing", !.waitlist = w])
    /\ UNCHANGED <<store, registration, nextMsgId, expiredAt, closed>>

\* await prisma.subscriber.findFirst(...), then the private-chat test and the
\* synchronous prefix of checkUserRegistration.
SubExisting(m) ==
    /\ m \in DOMAIN handlers
    /\ handlers[m].pc = "sub_existing"
    /\ LET h == handlers[m]
       IN  IF SubscribersOf(h.waitlist.id, h.user) # {}
           THEN /\ Advance(m, [h EXCEPT !.pc = "done", !.outcome = "already"])
                /\ UNCHANGED pendingSubscriptions
           ELSE IF IsPrivateChat(h.chat) \/ GateShortCircuit(h.user) = "true"
           THEN /\ Advance(m, [h EXCEPT !.pc = "sub_create"])
                /\ UNCHANGED pendingSubscriptions
           ELSE IF GateShortCircuit(h.user) = "false"
           THEN Defer(m, h, h.name)
           ELSE /\ Advance(m, [h EXCEPT !.pc = "sub_probe"])
                /\ UNCHANGED pendingSubscriptions
    /\ UNCHANGED <<store, verifiedUsers, registrationMessages, nextMsgId, expiredAt, closed>>

ProbeResults == {"ok", "unreachable", "other"}

\* Mutant: a delivered probe is not remembered.
VerifiedForgotten(u) == verifiedUsers

\* verifiedUsers.add(userIdStr) after the probe was delivered (line 85).
VerifiedAfterProbe(u) == verifiedUsers \cup {u}

\* Variant: every failure of the probe is taken for the reachability error.
IsReachabilityErrorAny(result) == result # "ok"

\* error.description?.includes("can't initiate conversation")
IsReachabilityError(result) == result = "unreachable"

\* await ctx.telegram.sendMessage(userId, ..., {disable_notification: true}):
\* delivered, refused with "can't initiate conversation", or another error.
SubProbe(m, result) ==
    /\ m \in DOMAIN handlers
    /\ handlers[m].pc = "sub_probe"
    /\ LET h == [handlers[m] EXCEPT !.probe = result]
       IN  CASE result = "ok" ->
                 /\ verifiedUsers' = VerifiedAfterProbe(h.user)
                 /\ Advance(m, [h EXCEPT !.pc = "sub_create"])
                 /\ UNCHANGED pendingSubscriptions
             [] IsReachabilityError(result) ->
                 /\ Advance(m, [h EXCEPT !.pc = "sub_prompt"])
                 /\ UNCHANGED <<verifiedUsers, pendingSubscriptions>>
             [] OTHER ->
                 /\ Defer(m, h, ProductName(h))
                 /\ UNCHANGED verifiedUsers
    /\ UNCHANGED <<store, registrationMessages, nextMsgId, expiredAt, closed>>

\* await ctx.reply(registration prompt): posted (the prompt gets the next message
\* id, is recorded, and its expiry timer is scheduled) or failed; either way the
\* gate returns false and the caller stores the attempt.
SubPrompt(m, ok) ==
    /\ m \in DOMAIN handlers
    /\ handlers[m].pc = "sub_prompt"
    /\ LET h == handlers[m]
           p == nextMsgId
       IN  IF ok
           THEN /\ registrationMessages' =
                      Put(registrationMessages, h.user, [messageId |-> p, chatId |-> h.chat])
                /\ nextMsgId' = p + 1
                /\ handlers' = Put(Drop(handlers, m), p, NewTimer(p, h))
                /\ reply' = [h EXCEPT !.pc = "done", !.outcome = "deferred", !.prompted = p]
                /\ pendingSubscriptions' = PendingSet(h, ProductName(h))
           ELSE /\ Defer(m, h, ProductName(h))
                /\ UNCHANGED <<registrationMessages, nextMsgId>>
    /\ UNCHANGED <<store, verifiedUsers, expiredAt, closed>>

\* await prisma.subscriber.create(...); a foreign-key violation is thrown out of
\* the handler.  The reaction (or its text fallback) ends the handler.
SubCreate(m) ==
    /\ m \in DOMAIN handlers
    /\ handlers[m].pc = "sub_create"
    /\ LET h == handlers[m]
       IN  IF ForeignKeyHolds(h.waitlist.id)
           THEN /\ InsertSubscriber(h.waitlist.id, h.user)
                /\ Advance(m, [h EXCEPT !.pc = "done", !.outcome = "subscribed",
                                        !.created = nextSubscriberId,
                                        !.reacted = h.id])
           ELSE /\ Advance(m, BotCatch(h))
                /\ UNCHANGED <<subscribers, nextSubscriberId>>
    /\ UNCHANGED <<waitlists, nextWaitlistId, registration, nextMsgId, expiredAt, closed>>

\* ------------------------------------------------------ /subscribe_<cmd>
\* Product and command names are strings; the letters of the ones used here.
Letters(name) ==
    CASE name = "a" -> <<"a">>
      [] name = "b" -> <<"b">>
      [] name = "a b" -> <<"a", " ", "b">>
      [] name = "A b" -> <<"A", " ", "b">>
      [] name = "a_b" -> <<"a", "_", "b">>
      [] name = "A_b" -> <<"A", "_", "b">>
      [] name = "A_B" -> <<"A", "_", "B">>
      [] OTHER -> <<>>

IsSpace(ch) == ch = " "
Lower(ch) == IF ch = "A" THEN "a" ELSE IF ch = "B" THEN "b" ELSE ch

\* commandName.replace(/_/g, ' ')
ProductLetters(cmd) == [i \in 1..Len(cmd) |-> IF cmd[i] = "_" THEN " " ELSE cmd[i]]

RECURSIVE SkipSpaces(_)
SkipSpaces(seq) ==
    IF seq # <<>> /\ IsSpace(Head(seq)) THEN SkipSpaces(Tail(seq)) ELSE seq

\* w.name.replace(/\s+/g, '_').toLowerCase()
RECURSIVE Sanitized(_)
Sanitized(seq) ==
    IF seq = <<>> THEN <<>>
    ELSE IF IsSpace(Head(seq)) THEN <<"_">> \o Sanitized(SkipSpaces(seq))
    ELSE <<Lower(Head(seq))>> \o Sanitized(Tail(seq))

\* The handler of bot.hears(/^\/subscribe_(.+)/): name holds commandName.
DynSubscribeCmd(u, c, cmd) ==
    /\ CanDispatch
    /\ Dispatch(NewHandler(nextMsgId, "dynsubscribe", u, c, cmd, "dyn_find", InFlight = {}))
    /\ UNCHANGED <<store, registration, expiredAt, closed>>

\* Mutant: the lookup by exact name finds nothing.
ExactMatchesNone(cmd, c) == {}

\* prisma.waitlist.findFirst({ where: { name: productName, chatId } }) with
\* productName = commandName.replace(/_/g, ' ')
ExactMatches(cmd, c) ==
    {w \in waitlists : /\ Letters(w.name) = ProductLetters(Letters(cmd))
                       /\ w.chatId = c}

\* allWaitlists.find(w => w.name.replace(/\s+/g, '_').toLowerCase() === commandName)
SanitizedMatches(cmd, c) ==
    {w \in waitlists : /\ w.chatId = c
                       /\ Sanitized(Letters(w.name)) = Letters(cmd)}

\* await prisma.waitlist.findFirst({ where: { name: productName, chatId } })
DynFind(m) ==
    /\ m \in DOMAIN handlers
    /\ handlers[m].pc = "dyn_find"
    /\ LET h == handlers[m]
           found == ExactMatches(h.name, h.chat)
       IN  IF found = {}
           THEN Advance(m, [h EXCEPT !.pc = "dyn_findall"])
           ELSE \E w \in found : Advance(m, [h EXCEPT !.pc = "dyn_existing", !.waitlist = w])
    /\ UNCHANGED <<store, registration, nextMsgId, expiredAt, closed>>

\* await prisma.waitlist.findMany({ where: { chatId } }), then the first row, in
\* the order the store returned them, whose sanitized name is commandName.
DynFindAll(m) ==
    /\ m \in DOMAIN handlers
    /\ handlers[m].pc = "dyn_findall"
    /\ LET h == handlers[m]
           matching == SanitizedMatches(h.name, h.chat)
       IN  IF matching = {}
           THEN Advance(m, [h EXCEPT !.pc = "done", !.outcome = "notfound"])
           ELSE \E w \in matching :
                    Advance(m, [h EXCEPT !.pc = "dyn_existing", !.waitlist = w])
    /\ UNCHANGED <<store, registration, nextMsgId, expiredAt, closed>>

\* Lines 483-495: as lines 398-407 of /subscribe.  The gate's awaits and the
\* insert of lines 507-530 (the same code as lines 420-442) are the steps
\* SubProbe, SubPrompt and SubCreate.
DynExisting(m) ==
    /\ m \in DOMAIN handlers
    /\ handlers[m].pc = "dyn_existing"
    /\ LET h == handlers[m]
       IN  IF SubscribersOf(h.waitlist.id, h.user) # {}
           THEN /\ Advance(m, [h EXCEPT !.pc = "done", !.outcome = "already"])
                /\ UNCHANGED pendingSubscriptions
           ELSE IF IsPrivateChat(h.chat) \/ GateShortCircuit(h.user) = "true"
           THEN /\ Advance(m, [h EXCEPT !.pc = "sub_create"])
                /\ UNCHANGED pendingSubscriptions
           ELSE IF GateShortCircuit(h.user) = "false"
           THEN Defer(m, h, ProductName(h))
           ELSE /\ Advance(m, [h EXCEPT !.pc = "sub_probe"])
                /\ UNCHANGED pendingSubscriptions
    /\ UNCHANGED <<store, verifiedUsers, registrationMessages, nextMsgId, expiredAt, closed>>

\* ------------------------------------------------ /unsubscribe <productName>
UnsubscribeCmd(u, c, n) ==
    /\ CanDispatch
    /\ Dispatch(NewHandler(nextMsgId, "unsubscribe", u, c, n, "un_find", InFlight = {}))
    /\ UNCHANGED <<store, registration, expiredAt, closed>>

\* prisma.subscriber.findFirst({ where: { userId, waitlist: { name } } }): the
\* user's subscriptions, in any chat, to a waitlist of that name.
SubscriptionsByName(u, n) ==
    {s \in subscribers : /\ s.userId = u
                          /\ \E w \in waitlists : w.id = s.waitlistId /\ w.name = n}

\* include: { waitlist: true }
WaitlistOf(s) == CHOOSE w \in waitlists : w.id = s.waitlistId

\* Lines 544-565: the lookup by subscription (private chat) or by name and chat
\* (group chat), and the reply when it finds nothing.
UnsubFind(m) ==
    /\ m \in DOMAIN handlers
    /\ handlers[m].pc = "un_find"
    /\ LET h == handlers[m]
       IN  IF IsPrivateChat(h.chat)
           THEN IF SubscriptionsByName(h.user, h.name) = {}
                THEN Advance(m, [h EXCEPT !.pc = "done", !.outcome = "notsubscribed"])
                ELSE \E s \in SubscriptionsByName(h.user, h.name) :
                         Advance(m, [h EXCEPT !.pc = "un_delete", !.waitlist = WaitlistOf(s)])
           ELSE IF WaitlistsByNameChat(h.name, h.chat) = {}
                THEN Advance(m, [h EXCEPT !.pc = "done", !.outcome = "notfound"])
                ELSE \E w \in WaitlistsByNameChat(h.name, h.chat) :
                         Advance(m, [h EXCEPT !.pc = "un_delete", !.waitlist = w])
    /\ UNCHANGED <<store, registration, nextMsgId, expiredAt, closed>>

\* await prisma.subscriber.deleteMany({ where: { waitlistId, userId } }), then
\* the reaction or, if it fails, the text acknowledgement.
UnsubDelete(m, ok) ==
    /\ m \in DOMAIN handlers
    /\ handlers[m].pc = "un_delete"
    /\ LET h == handlers[m]
       IN  /\ subscribers' = {s \in subscribers :
                                 ~(s.waitlistId = h.waitlist.id /\ s.userId = h.user)}
           /\ Advance(m, [h EXCEPT !.pc = "done", !.outcome = "unsubscribed",
                                   !.reacted = h.id, !.threw = ~ok])
    /\ UNCHANGED <<waitlists, nextWaitlistId, nextSubscriberId, registration, nextMsgId,
                   expiredAt, closed>>

\* ----------------------------------------------------------------- /start
\* Lines 165-167: if a subscription is pending, take it and look its waitlist up;
\* otherwise the welcome reply ends the handler.
StartPending(h) ==
    IF h.user \in DOMAIN pendingSubscriptions
    THEN [h EXCEPT !.pc = "st_find", !.subscription = pendingSubscriptions[h.user]]
    ELSE [h EXCEPT !.pc = "done", !.outcome = "welcome"]

\* Lines 137-163: the synchronous prefix of bot.start.
StartPrefix(h) ==
    IF ~IsPrivateChat(h.chat)
    THEN [h EXCEPT !.pc = "done", !.outcome = "group"]
    ELSE IF h.user \in DOMAIN registrationMessages
    THEN [h EXCEPT !.pc = "st_delete", !.msgInfo = registrationMessages[h.user]]
    ELSE StartPending(h)

StartCmd(u, c) ==
    /\ CanDispatch
    /\ verifiedUsers' = VerifiedAfterStart(u, c)
    /\ Dispatch(StartPrefix(NewHandler(nextMsgId, "start", u, c, "", "", InFlight = {})))
    /\ UNCHANGED <<store, registrationMessages, pendingSubscriptions, expiredAt, closed>>

\* await ctx.telegram.deleteMessage(msgInfo.chatId, msgInfo.messageId), failure
\* swallowed; then registrationMessages.delete(userIdStr).
StartDelete(m, ok) ==
    /\ m \in DOMAIN handlers
    /\ handlers[m].pc = "st_delete"
    /\ LET h == [handlers[m] EXCEPT !.deleted = handlers[m].msgInfo.messageId]
       IN  /\ registrationMessages' = RegistrationDelete(h.user)
           /\ Advance(m, StartPending(h))
    /\ UNCHANGED <<store, verifiedUsers, pendingSubscriptions, nextMsgId, expiredAt, closed>>

\* Mutant: a store failure is not caught in the handler and reaches bot.catch.
StartUncaught(m, h) ==
    /\ UNCHANGED pendingSubscriptions
    /\ Advance(m, BotCatch(h))

\* catch (e) of lines 201-204, then pendingSubscriptions.delete(userIdStr).
StartCaught(m, h) ==
    /\ pendingSubscriptions' = PendingDelete(h.user)
    /\ Advance(m, [h EXCEPT !.pc = "done", !.outcome = "welcome", !.threw = TRUE])

\* await prisma.waitlist.findFirst({ where: { name: subscription.productName,
\* chatId: subscription.chatId } })
StartFind(m, ok) ==
    /\ m \in DOMAIN handlers
    /\ handlers[m].pc = "st_find"
    /\ LET h == handlers[m]
           found == WaitlistsByNameChat(h.subscription.productName, h.subscription.chatId)
       IN  IF ~ok
           THEN StartCaught(m, h)
           ELSE /\ IF found = {}
                   THEN Advance(m, [h EXCEPT !.pc = "st_react"])
                   ELSE \E w \in found :
                            Advance(m, [h EXCEPT !.pc = "st_existing", !.waitlist = w])
                /\ UNCHANGED pendingSubscriptions
    /\ UNCHANGED <<store, verifiedUsers, registrationMessages, nextMsgId, expiredAt, closed>>

\* await prisma.subscriber.findFirst({ where: { waitlistId, userId } })
StartExisting(m, ok) ==
    /\ m \in DOMAIN handlers
    /\ handlers[m].pc = "st_existing"
    /\ LET h == handlers[m]
       IN  IF ~ok
           THEN StartCaught(m, h)
           ELSE /\ IF SubscribersOf(h.waitlist.id, h.user) # {}
                   THEN Advance(m, [h EXCEPT !.pc = "st_react"])
                   ELSE Advance(m, [h EXCEPT !.pc = "st_create"])
                /\ UNCHANGED pendingSubscriptions
    /\ UNCHANGED <<store, verifiedUsers, registrationMessages, nextMsgId, expiredAt, closed>>

\* await prisma.subscriber.create(...)
StartCreate(m, ok) ==
    /\ m \in DOMAIN handlers
    /\ handlers[m].pc = "st_create"
    /\ LET h == handlers[m]
       IN  IF ok /\ ForeignKeyHolds(h.waitlist.id)
           THEN /\ InsertSubscriber(h.waitlist.id, h.user)
                /\ Advance(m, [h EXCEPT !.pc = "st_react", !.created = nextSubscriberId])
                /\ UNCHANGED pendingSubscriptions
           ELSE /\ StartCaught(m, h)
                /\ UNCHANGED <<subscribers, nextSubscriberId>>
    /\ UNCHANGED <<waitlists, nextWaitlistId, verifiedUsers, registrationMessages,
                   nextMsgId, expiredAt, closed>>

\* await callApi('setMessageReaction', ...) on the original subscribe message,
\* failure caught; then pendingSubscriptions.delete(userIdStr) and the welcome.
StartReact(m, ok) ==
    /\ m \in DOMAIN handlers
    /\ handlers[m].pc = "st_react"
    /\ LET h == handlers[m]
       IN  /\ pendingSubscriptions' = PendingDelete(h.user)
           /\ Advance(m, [h EXCEPT !.pc = "done", !.outcome = "welcome",
                                   !.reacted = h.subscription.messageId,
                                   !.threw = ~ok])
    /\ UNCHANGED <<store, verifiedUsers, registrationMessages, nextMsgId, expiredAt, closed>>

\* ------------------------------------------- expiry callback (lines 109-124)
\* Mutant: the callback goes on to the deletion without testing for the entry.
ExpiryFireUnchecked(p) ==
    /\ p \in DOMAIN handlers
    /\ handlers[p].pc = "timer"
    /\ LET h == [handlers[p] EXCEPT !.solo = (InFlight = {})]
           rec == [h EXCEPT !.pc = "exp_delete",
                            !.msgInfo = IF h.user \in DOMAIN registrationMessages
                                        THEN registrationMessages[h.user]
                                        ELSE [messageId |-> p, chatId |-> h.chat]]
       IN  /\ handlers' = Put(Disturb(handlers), p, rec)
           /\ reply' = NoReply
    /\ UNCHANGED <<store, registration, nextMsgId, expiredAt, closed>>

\* The timer fires: if the user's prompt entry is still there, delete its message.
ExpiryFire(p) ==
    /\ p \in DOMAIN handlers
    /\ handlers[p].pc = "timer"
    /\ LET h == [handlers[p] EXCEPT !.solo = (InFlight = {})]
           rec == IF h.user \in DOMAIN registrationMessages
                  THEN [h EXCEPT !.pc = "exp_delete", !.msgInfo = registrationMessages[h.user]]
                  ELSE [h EXCEPT !.pc = "done", !.outcome = "stale"]
       IN  IF rec.pc = "done"
           THEN /\ handlers' = Drop(Disturb(handlers), p)
                /\ reply' = rec
           ELSE /\ handlers' = Put(Disturb(handlers), p, rec)
                /\ reply' = NoReply
    /\ UNCHANGED <<store, registration, nextMsgId, expiredAt, closed>>

\* Mutant: the expiry removes the prompt entry and keeps the pending subscription.
ExpiryClearPromptOnly(u) ==
    /\ registrationMessages' = RegistrationDelete(u)
    /\ UNCHANGED pendingSubscriptions

\* Mutant: the expiry removes the pending subscription and keeps the prompt entry.
ExpiryClearPendingOnly(u) ==
    /\ pendingSubscriptions' = PendingDelete(u)
    /\ UNCHANGED registrationMessages

\* Lines 115-117: after the deletion both entries of the user are removed.
ExpiryClear(u) ==
    /\ registrationMessages' = RegistrationDelete(u)
    /\ pendingSubscriptions' = PendingDelete(u)

\* Mutant: a failed deletion leaves both entries in place.
ExpiryCatchNothing(u) == UNCHANGED <<registrationMessages, pendingSubscriptions>>

\* Lines 119-122: the catch of a failed deletion removes both entries as well.
ExpiryCatch(u) ==
    /\ registrationMessages' = RegistrationDelete(u)
    /\ pendingSubscriptions' = PendingDelete(u)

\* await ctx.telegram.deleteMessage(...) returned or threw: the state is cleared
\* in the try and in the catch alike.
ExpiryDelete(p, ok) ==
    /\ p \in DOMAIN handlers
    /\ handlers[p].pc = "exp_delete"
    /\ LET h == handlers[p]
       IN  /\ IF ok THEN ExpiryClear(h.user) ELSE ExpiryCatch(h.user)
           /\ expiredAt' = IF h.user \in DOMAIN pendingSubscriptions
                           THEN Put(expiredAt, pendingSubscriptions[h.user].messageId, nextMsgId)
                           ELSE expiredAt
           /\ Advance(p, [h EXCEPT !.pc = "done", !.outcome = "expired",
                                   !.deleted = h.msgInfo.messageId, !.threw = ~ok])
    /\ UNCHANGED <<store, verifiedUsers, nextMsgId, closed>>


\* ------------------------------------------------------------- isUserAdmin
\* Mutant: every sender passes for an admin.
isUserAdminAlways(status) == TRUE

\* ['creator', 'administrator'].includes(member.status)
isUserAdmin(status) == status \in AdminStatuses

\* ------------------------------------- /openwaitlist <product name> @username
OpenCmd(u, c, n, owner) ==
    /\ CanDispatch
    /\ Dispatch([NewHandler(nextMsgId, "openwaitlist", u, c, n, "op_admin", InFlight = {})
                    EXCEPT !.owner = owner])
    /\ UNCHANGED <<store, registration, expiredAt, closed>>

\* await isUserAdmin(ctx): the sender's chat-member status arrives.
OpenAdmin(m, status) ==
    /\ m \in DOMAIN handlers
    /\ handlers[m].pc = "op_admin"
    /\ LET h == [handlers[m] EXCEPT !.status = status]
       IN  IF ~isUserAdmin(status)
           THEN Advance(m, [h EXCEPT !.pc = "done", !.outcome = "forbidden"])
           ELSE Advance(m, [h EXCEPT !.pc = "op_find"])
    /\ UNCHANGED <<store, registration, nextMsgId, expiredAt, closed>>

\* await prisma.waitlist.findFirst({ where: { name: productName, chatId } })
OpenFind(m) ==
    /\ m \in DOMAIN handlers
    /\ handlers[m].pc = "op_find"
    /\ LET h == handlers[m]
       IN  IF WaitlistsByNameChat(h.name, h.chat) # {}
           THEN Advance(m, [h EXCEPT !.pc = "done", !.outcome = "exists"])
           ELSE Advance(m, [h EXCEPT !.pc = "op_create"])
    /\ UNCHANGED <<store, registration, nextMsgId, expiredAt, closed>>

\* await prisma.waitlist.create({ data: { name, chatId, ownerUsername } })
OpenCreate(m) ==
    /\ m \in DOMAIN handlers
    /\ handlers[m].pc = "op_create"
    /\ LET h == handlers[m]
           w == [id |-> nextWaitlistId, name |-> h.name, chatId |-> h.chat,
                 ownerUsername |-> h.owner]
       IN  /\ waitlists' = waitlists \cup {w}
           /\ nextWaitlistId' = nextWaitlistId + 1
           /\ Advance(m, [h EXCEPT !.pc = "done", !.outcome = "created", !.waitlist = w])
    /\ UNCHANGED <<subscribers, nextSubscriberId, registration, nextMsgId, expiredAt, closed>>

\* ------------------------------------------------ /closewaitlist <product name>
\* Lines 335-342: a sender without a username is turned away at once.
ClosePrefix(h) ==
    IF UsernameOf(h.user) = NoUsername
    THEN [h EXCEPT !.pc = "done", !.outcome = "nousername"]
    ELSE [h EXCEPT !.pc = "cl_find"]

\* prisma.subscriber.findMany({ where: { waitlistId } }): the rows, by id.
RECURSIVE RowsById(_)
RowsById(S) ==
    IF S = {} THEN <<>>
    ELSE LET first == CHOOSE x \in S : \A y \in S : x.id <= y.id
         IN  <<first>> \o RowsById(S \ {first})

\* History: the Subscriber rows the named waitlist of the chat has when the
\* command arrives.
RowsBefore(n, c) ==
    RowsById({s \in subscribers : \E w \in WaitlistsByNameChat(n, c) : s.waitlistId = w.id})

CloseCmd(u, c, n) ==
    /\ CanDispatch
    /\ Dispatch(ClosePrefix([NewHandler(nextMsgId, "closewaitlist", u, c, n, "", InFlight = {})
                                EXCEPT !.subs = RowsBefore(n, c)]))
    /\ UNCHANGED <<store, registration, expiredAt, closed>>

\* await prisma.waitlist.findFirst({ where: { name: productName, chatId } })
CloseFind(m) ==
    /\ m \in DOMAIN handlers
    /\ handlers[m].pc = "cl_find"
    /\ LET h == handlers[m]
           found == WaitlistsByNameChat(h.name, h.chat)
       IN  IF found = {}
           THEN Advance(m, [h EXCEPT !.pc = "done", !.outcome = "notfound"])
           ELSE \E w \in found : Advance(m, [h EXCEPT !.pc = "cl_admin", !.waitlist = w])
    /\ UNCHANGED <<store, registration, nextMsgId, expiredAt, closed>>

\* Mutant: nobody is refused.
CloseRefusedNever(isOwner, isAdmin) == FALSE

\* if (!isOwner && !isAdmin), line 363
CloseRefused(isOwner, isAdmin) == ~isOwner /\ ~isAdmin

\* Lines 359-365: isOwner, await isUserAdmin(ctx), and the refusal.
CloseAdmin(m, status) ==
    /\ m \in DOMAIN handlers
    /\ handlers[m].pc = "cl_admin"
    /\ LET h == [handlers[m] EXCEPT !.status = status]
           isOwner == h.waitlist.ownerUsername = UsernameOf(h.user)
       IN  IF CloseRefused(isOwner, isUserAdmin(status))
           THEN Advance(m, [h EXCEPT !.pc = "done", !.outcome = "forbidden"])
           ELSE Advance(m, [h EXCEPT !.pc = "cl_subscribers"])
    /\ UNCHANGED <<store, registration, nextMsgId, expiredAt, closed>>

\* await prisma.subscriber.deleteMany({ where: { waitlistId: waitlist.id } })
CloseSubscribers(m) ==
    /\ m \in DOMAIN handlers
    /\ handlers[m].pc = "cl_subscribers"
    /\ LET h == handlers[m]
       IN  /\ subscribers' = {s \in subscribers : s.waitlistId # h.waitlist.id}
           /\ Advance(m, [h EXCEPT !.pc = "cl_waitlist"])
    /\ UNCHANGED <<waitlists, nextWaitlistId, nextSubscriberId, registration, nextMsgId,
                   expiredAt, closed>>

\* await prisma.waitlist.delete({ where: { id: waitlist.id } }): throws when the
\* row is gone already or is still referenced; otherwise the success reply.
CloseWaitlist(m) ==
    /\ m \in DOMAIN handlers
    /\ handlers[m].pc = "cl_waitlist"
    /\ LET h == handlers[m]
       IN  IF ~ForeignKeyHolds(h.waitlist.id) \/ DeleteRestricted(h.waitlist.id)
           THEN /\ Advance(m, BotCatch(h))
                /\ UNCHANGED <<waitlists, closed>>
           ELSE /\ waitlists' = {w \in waitlists : w.id # h.waitlist.id}
                /\ closed' = closed \cup {h.waitlist.id}
                /\ Advance(m, [h EXCEPT !.pc = "done", !.outcome = "closed"])
    /\ UNCHANGED <<subscribers, nextWaitlistId, nextSubscriberId, registration, nextMsgId,
                   expiredAt>>

\* ------------------------------------------- /broadcast <productName> <message...>
\* const productName = args[0]: the first word of what the sender typed after
\* the command.
RECURSIVE Args0(_)
Args0(seq) ==
    IF seq = <<>> \/ IsSpace(Head(seq)) THEN <<>> ELSE <<Head(seq)>> \o Args0(Tail(seq))

\* prisma.waitlist.findFirst({ where: { name: productName, ownerUsername:
\* fromUsername } }): a filter whose value is undefined is left out by Prisma.
WaitlistsByNameOwner(n, fromUsername) ==
    {w \in waitlists : /\ Letters(w.name) = Args0(Letters(n))
                       /\ fromUsername # NoUsername => w.ownerUsername = fromUsername}

\* Mutant: the ownership test of line 622 is missing.
MayBroadcastAnyone(w, fromUsername) == TRUE

\* Line 622, negated: the sender has a username and it is the waitlist's owner.
MayBroadcast(w, fromUsername) ==
    ~(fromUsername = NoUsername \/ w.ownerUsername # fromUsername)

\* Lines 598-601: only a private chat may broadcast.
BroadcastPrefix(h) ==
    IF ~IsPrivateChat(h.chat)
    THEN [h EXCEPT !.pc = "done", !.outcome = "wrongcontext"]
    ELSE [h EXCEPT !.pc = "bc_find"]

BroadcastCmd(u, c, n) ==
    /\ CanDispatch
    /\ Dispatch(BroadcastPrefix(NewHandler(nextMsgId, "broadcast", u, c, n, "", InFlight = {})))
    /\ UNCHANGED <<store, registration, expiredAt, closed>>

\* await prisma.waitlist.findFirst(...) and the two refusals of lines 618-624.
BroadcastFind(m) ==
    /\ m \in DOMAIN handlers
    /\ handlers[m].pc = "bc_find"
    /\ LET h == handlers[m]
           found == WaitlistsByNameOwner(h.name, UsernameOf(h.user))
       IN  IF found = {}
           THEN Advance(m, [h EXCEPT !.pc = "done", !.outcome = "notowner"])
           ELSE \E w \in found :
                    IF MayBroadcast(w, UsernameOf(h.user))
                    THEN Advance(m, [h EXCEPT !.pc = "bc_subs", !.waitlist = w])
                    ELSE Advance(m, [h EXCEPT !.pc = "done", !.outcome = "forbidden",
                                              !.waitlist = w])
    /\ UNCHANGED <<store, registration, nextMsgId, expiredAt, closed>>

\* The loop is over: the reply reports sentCount.
BroadcastNext(h) ==
    IF Len(h.attempted) = Len(h.subs)
    THEN [h EXCEPT !.pc = "done", !.outcome = "broadcast"]
    ELSE [h EXCEPT !.pc = "bc_send"]

\* Mutant: the rows are fetched without the waitlistId filter.
SubscriberRowsAll(wid) == RowsById(subscribers)

\* prisma.subscriber.findMany({ where: { waitlistId: waitlist.id } })
SubscriberRows(wid) == RowsById({s \in subscribers : s.waitlistId = wid})

\* await prisma.subscriber.findMany({ where: { waitlistId: waitlist.id } })
BroadcastSubs(m) ==
    /\ m \in DOMAIN handlers
    /\ handlers[m].pc = "bc_subs"
    /\ LET h == handlers[m]
           rows == SubscriberRows(h.waitlist.id)
       IN  Advance(m, BroadcastNext([h EXCEPT !.subs = rows]))
    /\ UNCHANGED <<store, registration, nextMsgId, expiredAt, closed>>

\* Mutant: a failed send is not caught and ends the handler.
SentAbortOnFailure(h, sub, ok) ==
    IF ok
    THEN BroadcastNext([h EXCEPT !.attempted = Append(h.attempted, sub.userId),
                                 !.sentCount = h.sentCount + 1])
    ELSE [h EXCEPT !.attempted = Append(h.attempted, sub.userId),
                   !.pc = "done", !.outcome = "error", !.threw = TRUE]

\* Lines 634-642: one pass of the loop body, the send delivered or thrown.
Sent(h, sub, ok) ==
    BroadcastNext(
        IF ok
        THEN [h EXCEPT !.attempted = Append(h.attempted, sub.userId),
                       !.sentCount = h.sentCount + 1]
        ELSE [h EXCEPT !.attempted = Append(h.attempted, sub.userId),
                       !.failedUsers = Append(h.failedUsers, sub.userId)])

\* await ctx.telegram.sendMessage(Number(sub.userId), fullBroadcastMessage)
BroadcastSend(m, ok) ==
    /\ m \in DOMAIN handlers
    /\ handlers[m].pc = "bc_send"
    /\ LET h == handlers[m]
       IN  Advance(m, Sent(h, h.subs[Len(h.attempted) + 1], ok))
    /\ UNCHANGED <<store, registration, nextMsgId, expiredAt, closed>>

\* ------------------------------------------------------------ specification
\* The process has just started (the in-memory maps are empty) on a store in
\* which /openwaitlist a @alice was run in group -1 earlier.
Waitlist1 == [id |-> 1, name |-> "a", chatId |-> -1, ownerUsername |-> "alice"]

Init ==
    /\ waitlists = {Waitlist1}
    /\ subscribers = {}
    /\ nextWaitlistId = 2
    /\ nextSubscriberId = 1
    /\ verifiedUsers = {}
    /\ registrationMessages = EmptyMap
    /\ pendingSubscriptions = EmptyMap
    /\ nextMsgId = 1
    /\ handlers = EmptyMap
    /\ reply = NoReply
    /\ expiredAt = EmptyMap
    /\ closed = {}

Next ==
    \/ \E u \in RegUsers, c \in {-1} : SubscribeCmd(u, c, "a")
    \/ \E m \in DOMAIN handlers : SubFind(m)
    \/ \E m \in DOMAIN handlers : SubExisting(m)
    \/ \E m \in DOMAIN handlers, r \in ProbeResults : SubProbe(m, r)
    \/ \E m \in DOMAIN handlers, ok \in BOOLEAN : SubPrompt(m, ok)
    \/ \E m \in DOMAIN handlers : SubCreate(m)
    \/ \E u \in RegUsers : \E c \in {u, -1} : StartCmd(u, c)
    \/ \E m \in DOMAIN handlers, ok \in BOOLEAN : StartDelete(m, ok)
    \/ \E m \in DOMAIN handlers, ok \in BOOLEAN : StartFind(m, ok)
    \/ \E m \in DOMAIN handlers, ok \in BOOLEAN : StartExisting(m, ok)
    \/ \E m \in DOMAIN handlers, ok \in BOOLEAN : StartCreate(m, ok)
    \/ \E m \in DOMAIN handlers, ok \in BOOLEAN : StartReact(m, ok)
    \/ \E p \in DOMAIN handlers : ExpiryFire(p)
    \/ \E p \in DOMAIN handlers, ok \in BOOLEAN : ExpiryDelete(p, ok)

Spec == Init /\ [][Next]_vars

\* Every scheduled timer fires, and the deleteMessage call its callback awaits
\* returns or throws.
TimerFires == \E p \in DOMAIN handlers : ExpiryFire(p)
TimerCallbackEnds == \E p \in DOMAIN handlers, ok \in BOOLEAN : ExpiryDelete(p, ok)

SpecExpiry == Init /\ [][Next]_vars /\ WF_vars(TimerFires) /\ WF_vars(TimerCallbackEnds)

\* A fresh process on an empty store: admins open and close waitlists in two
\* groups while user 2 subscribes.
InitStore ==
    /\ waitlists = {}
    /\ subscribers = {}
    /\ nextWaitlistId = 1
    /\ nextSubscriberId = 1
    /\ verifiedUsers = {}
    /\ registrationMessages = EmptyMap
    /\ pendingSubscriptions = EmptyMap
    /\ nextMsgId = 1
    /\ handlers = EmptyMap
    /\ reply = NoReply
    /\ expiredAt = EmptyMap
    /\ closed = {}

NextStore ==
    \/ \E c \in Groups : OpenCmd(1, c, "a", "alice")
    \/ \E m \in DOMAIN handlers, st \in Statuses : OpenAdmin(m, st)
    \/ \E m \in DOMAIN handlers : OpenFind(m)
    \/ \E m \in DOMAIN handlers : OpenCreate(m)
    \/ \E u \in Users : CloseCmd(u, -1, "a")
    \/ \E m \in DOMAIN handlers : CloseFind(m)
    \/ \E m \in DOMAIN handlers, st \in Statuses : CloseAdmin(m, st)
    \/ \E m \in DOMAIN handlers : CloseSubscribers(m)
    \/ \E m \in DOMAIN handlers : CloseWaitlist(m)
    \/ SubscribeCmd(2, -1, "a")
    \/ \E m \in DOMAIN handlers : SubFind(m)
    \/ \E m \in DOMAIN handlers : SubExisting(m)
    \/ \E m \in DOMAIN handlers, r \in ProbeResults : SubProbe(m, r)
    \/ \E m \in DOMAIN handlers, ok \in BOOLEAN : SubPrompt(m, ok)
    \/ \E m \in DOMAIN handlers : SubCreate(m)
    \/ \E p \in DOMAIN handlers : ExpiryFire(p)
    \/ \E p \in DOMAIN handlers, ok \in BOOLEAN : ExpiryDelete(p, ok)

SpecStore == InitStore /\ [][NextStore]_vars

\* The process of Init again: user 1 subscribes and registers while the
\* waitlist is being closed by its owner (user 1, alice, a plain member).
NextClose ==
    \/ InFlight = {} /\ CloseCmd(1, -1, "a")
    \/ \E m \in DOMAIN handlers : CloseFind(m)
    \/ \E m \in DOMAIN handlers : CloseAdmin(m, "member")
    \/ \E m \in DOMAIN handlers : CloseSubscribers(m)
    \/ \E m \in DOMAIN handlers : CloseWaitlist(m)
    \/ SubscribeCmd(1, -1, "a")
    \/ \E m \in DOMAIN handlers : SubFind(m)
    \/ \E m \in DOMAIN handlers : SubExisting(m)
    \/ \E m \in DOMAIN handlers, r \in ProbeResults : SubProbe(m, r)
    \/ \E m \in DOMAIN handlers, ok \in BOOLEAN : SubPrompt(m, ok)
    \/ \E m \in DOMAIN handlers : SubCreate(m)
    \/ StartCmd(1, 1)
    \/ \E m \in DOMAIN handlers, ok \in BOOLEAN : StartDelete(m, ok)
    \/ \E m \in DOMAIN handlers, ok \in BOOLEAN : StartFind(m, ok)
    \/ \E m \in DOMAIN handlers, ok \in BOOLEAN : StartExisting(m, ok)
    \/ \E m \in DOMAIN handlers, ok \in BOOLEAN : StartCreate(m, ok)
    \/ \E m \in DOMAIN handlers, ok \in BOOLEAN : StartReact(m, ok)
    \/ \E p \in DOMAIN handlers : ExpiryFire(p)
    \/ \E p \in DOMAIN handlers, ok \in BOOLEAN : ExpiryDelete(p, ok)

SpecClose == Init /\ [][NextClose]_vars

\* A fresh process on a store left by earlier runs: waitlist "a" of alice in
\* group -1 with any number of subscribers up to MaxSubs, a waitlist of the same
\* name of bob in group -2 with one subscriber, and waitlist "b" of bob.
Waitlist2 == [id |-> 2, name |-> "a", chatId |-> -2, ownerUsername |-> "bob"]
Waitlist3 == [id |-> 3, name |-> "b", chatId |-> -1, ownerUsername |-> "bob"]
Broadcasters == {1, 2}

InitBroadcast ==
    /\ waitlists = {Waitlist1, Waitlist2, Waitlist3}
    /\ \E n \in 0..MaxSubs :
           /\ subscribers =
                  {[id |-> i, waitlistId |-> 1, userId |-> 10 + i, username |-> NoUsername]
                      : i \in 1..n}
                  \cup {[id |-> n + 1, waitlistId |-> 2, userId |-> 20, username |-> NoUsername]}
           /\ nextSubscriberId = n + 2
    /\ nextWaitlistId = 4
    /\ verifiedUsers = {}
    /\ registrationMessages = EmptyMap
    /\ pendingSubscriptions = EmptyMap
    /\ nextMsgId = 1
    /\ handlers = EmptyMap
    /\ reply = NoReply
    /\ expiredAt = EmptyMap
    /\ closed = {}

NextBroadcast ==
    \/ \E u \in Broadcasters : \E c \in {u, -1}, n \in Names : BroadcastCmd(u, c, n)
    \/ \E m \in DOMAIN handlers : BroadcastFind(m)
    \/ \E m \in DOMAIN handlers : BroadcastSubs(m)
    \/ \E m \in DOMAIN handlers, ok \in BOOLEAN : BroadcastSend(m, ok)

SpecBroadcast == InitBroadcast /\ [][NextBroadcast]_vars


\* The process of Init: user 1 subscribes in the group and unsubscribes, in the
\* group and in the private chat.
NextUnsub ==
    \/ \E c \in {1, -1} : UnsubscribeCmd(1, c, "a")
    \/ \E m \in DOMAIN handlers : UnsubFind(m)
    \/ \E m \in DOMAIN handlers, ok \in BOOLEAN : UnsubDelete(m, ok)
    \/ SubscribeCmd(1, -1, "a")
    \/ \E m \in DOMAIN handlers : SubFind(m)
    \/ \E m \in DOMAIN handlers : SubExisting(m)
    \/ \E m \in DOMAIN handlers, r \in ProbeResults : SubProbe(m, r)
    \/ \E m \in DOMAIN handlers, ok \in BOOLEAN : SubPrompt(m, ok)
    \/ \E m \in DOMAIN handlers : SubCreate(m)
    \/ \E p \in DOMAIN handlers : ExpiryFire(p)
    \/ \E p \in DOMAIN handlers, ok \in BOOLEAN : ExpiryDelete(p, ok)

SpecUnsub == Init /\ [][NextUnsub]_vars

\* A fresh process on a store in which group -2 has the waitlists "a" and "A b"
\* of bob, user 1 is subscribed to both, and group -1 has waitlist "a".  Every
\* command is issued in group -1, by user 1, an administrator who is verified.
Waitlist4 == [id |-> 4, name |-> "A b", chatId |-> -2, ownerUsername |-> "bob"]
OtherChatWaitlists == {Waitlist2, Waitlist4}
OtherChatSubscribers ==
    {[id |-> 1, waitlistId |-> 2, userId |-> 1, username |-> "alice"],
     [id |-> 2, waitlistId |-> 4, userId |-> 1, username |-> "alice"]}
DynCommands == {"a", "a_b"}

InitIsolation ==
    /\ waitlists = {Waitlist1} \cup OtherChatWaitlists
    /\ subscribers = OtherChatSubscribers
    /\ nextWaitlistId = 5
    /\ nextSubscriberId = 3
    /\ verifiedUsers = {1}
    /\ registrationMessages = EmptyMap
    /\ pendingSubscriptions = EmptyMap
    /\ nextMsgId = 1
    /\ handlers = EmptyMap
    /\ reply = NoReply
    /\ expiredAt = EmptyMap
    /\ closed = {}

NextIsolation ==
    \/ OpenCmd(1, -1, "A b", "alice")
    \/ \E m \in DOMAIN handlers : OpenAdmin(m, "administrator")
    \/ \E m \in DOMAIN handlers : OpenFind(m)
    \/ \E m \in DOMAIN handlers : OpenCreate(m)
    \/ CloseCmd(1, -1, "a")
    \/ \E m \in DOMAIN handlers : CloseFind(m)
    \/ \E m \in DOMAIN handlers : CloseAdmin(m, "administrator")
    \/ \E m \in DOMAIN handlers : CloseSubscribers(m)
    \/ \E m \in DOMAIN handlers : CloseWaitlist(m)
    \/ SubscribeCmd(1, -1, "a")
    \/ \E m \in DOMAIN handlers : SubFind(m)
    \/ \E m \in DOMAIN handlers : SubExisting(m)
    \/ \E m \in DOMAIN handlers : SubCreate(m)
    \/ \E cmd \in DynCommands : DynSubscribeCmd(1, -1, cmd)
    \/ \E m \in DOMAIN handlers : DynFind(m)
    \/ \E m \in DOMAIN handlers : DynFindAll(m)
    \/ \E m \in DOMAIN handlers : DynExisting(m)
    \/ UnsubscribeCmd(1, -1, "a")
    \/ \E m \in DOMAIN handlers : UnsubFind(m)
    \/ \E m \in DOMAIN handlers : UnsubDelete(m, TRUE)

SpecIsolation == InitIsolation /\ [][NextIsolation]_vars


\* The members of group -1 in the permission scenarios: what getChatMember
\* answers for each sender.  1 alice (the owner) and 3 bob are plain members,
\* 2 is an administrator without a username, 4 carol is the creator, 5 is a
\* plain member without a username.
MemberStatus(u) ==
    CASE u = 2 -> "administrator"
      [] u = 4 -> "creator"
      [] OTHER -> "member"

Closers == {2, 3, 4, 5}
Openers == {2, 3}
AdminSubscribers == {[id |-> 1, waitlistId |-> 1, userId |-> 5, username |-> NoUsername]}

\* A fresh process on a store with waitlist "a" of alice in group -1 and one
\* subscriber.
InitAdmin ==
    /\ waitlists = {Waitlist1}
    /\ subscribers = AdminSubscribers
    /\ nextWaitlistId = 2
    /\ nextSubscriberId = 2
    /\ verifiedUsers = {}
    /\ registrationMessages = EmptyMap
    /\ pendingSubscriptions = EmptyMap
    /\ nextMsgId = 1
    /\ handlers = EmptyMap
    /\ reply = NoReply
    /\ expiredAt = EmptyMap
    /\ closed = {}

NextAdmin ==
    \/ \E u \in Openers : OpenCmd(u, -1, "b", "bob")
    \/ \E m \in DOMAIN handlers : OpenAdmin(m, MemberStatus(handlers[m].user))
    \/ \E m \in DOMAIN handlers : OpenFind(m)
    \/ \E m \in DOMAIN handlers : OpenCreate(m)
    \/ \E u \in Closers : CloseCmd(u, -1, "a")
    \/ \E m \in DOMAIN handlers : CloseFind(m)
    \/ \E m \in DOMAIN handlers : CloseAdmin(m, MemberStatus(handlers[m].user))
    \/ \E m \in DOMAIN handlers : CloseSubscribers(m)
    \/ \E m \in DOMAIN handlers : CloseWaitlist(m)

SpecAdmin == InitAdmin /\ [][NextAdmin]_vars

\* The process of Init with a second waitlist in the group: user 1 subscribes to
\* "a" and to "b" in group -1 and registers in the private chat.  Deletions and
\* reactions succeed; probes, prompts and store calls may fail.
InitPending ==
    /\ waitlists = {Waitlist1, Waitlist3}
    /\ subscribers = {}
    /\ nextWaitlistId = 4
    /\ nextSubscriberId = 1
    /\ verifiedUsers = {}
    /\ registrationMessages = EmptyMap
    /\ pendingSubscriptions = EmptyMap
    /\ nextMsgId = 1
    /\ handlers = EmptyMap
    /\ reply = NoReply
    /\ expiredAt = EmptyMap
    /\ closed = {}

NextPending ==
    \/ \E n \in Names : SubscribeCmd(1, -1, n)
    \/ \E m \in DOMAIN handlers : SubFind(m)
    \/ \E m \in DOMAIN handlers : SubExisting(m)
    \/ \E m \in DOMAIN handlers, r \in ProbeResults : SubProbe(m, r)
    \/ \E m \in DOMAIN handlers, ok \in BOOLEAN : SubPrompt(m, ok)
    \/ \E m \in DOMAIN handlers : SubCreate(m)
    \/ StartCmd(1, 1)
    \/ \E m \in DOMAIN handlers : StartDelete(m, TRUE)
    \/ \E m \in DOMAIN handlers, ok \in BOOLEAN : StartFind(m, ok)
    \/ \E m \in DOMAIN handlers, ok \in BOOLEAN : StartExisting(m, ok)
    \/ \E m \in DOMAIN handlers, ok \in BOOLEAN : StartCreate(m, ok)
    \/ \E m \in DOMAIN handlers : StartReact(m, TRUE)
    \/ \E p \in DOMAIN handlers : ExpiryFire(p)
    \/ \E p \in DOMAIN handlers : ExpiryDelete(p, TRUE)

SpecPending == InitPending /\ [][NextPending]_vars

\* A fresh process on a store left by earlier runs: in group -1 the waitlist
\* "A b", alone or together with the waitlist "a b".  User 1 sends dynamic subscribe commands
\* there; no /start arrives and no prompt lives long enough to expire.
Waitlist5 == [id |-> 5, name |-> "a b", chatId |-> -1, ownerUsername |-> "alice"]
Waitlist6 == [id |-> 6, name |-> "A b", chatId |-> -1, ownerUsername |-> "bob"]
CasedCommands == {"a_b", "A_B"}

InitDynamic ==
    /\ waitlists \in {{Waitlist6}, {Waitlist5, Waitlist6}}
    /\ subscribers = {}
    /\ nextWaitlistId = 7
    /\ nextSubscriberId = 1
    /\ verifiedUsers = {}
    /\ registrationMessages = EmptyMap
    /\ pendingSubscriptions = EmptyMap
    /\ nextMsgId = 1
    /\ handlers = EmptyMap
    /\ reply = NoReply
    /\ expiredAt = EmptyMap
    /\ closed = {}

NextDynamic ==
    \/ \E cmd \in CasedCommands : DynSubscribeCmd(1, -1, cmd)
    \/ \E m \in DOMAIN handlers : DynFind(m)
    \/ \E m \in DOMAIN handlers : DynFindAll(m)
    \/ \E m \in DOMAIN handlers : DynExisting(m)
    \/ \E m \in DOMAIN handlers, r \in ProbeResults : SubProbe(m, r)
    \/ \E m \in DOMAIN handlers, ok \in BOOLEAN : SubPrompt(m, ok)
    \/ \E m \in DOMAIN handlers : SubCreate(m)

SpecDynamic == InitDynamic /\ [][NextDynamic]_vars

\* A fresh process on a store left by earlier runs: alice owns the waitlist "a"
\* of group -1, a waitlist of the same name in group -2 and the waitlist "a b"
\* of group -1, each with one subscriber.  She broadcasts from the private chat.
Waitlist7 == [id |-> 7, name |-> "a", chatId |-> -2, ownerUsername |-> "alice"]
OwnedWaitlists == {Waitlist1, Waitlist5, Waitlist7}
OwnedSubscribers ==
    {[id |-> 1, waitlistId |-> 1, userId |-> 11, username |-> NoUsername],
     [id |-> 2, waitlistId |-> 5, userId |-> 12, username |-> NoUsername],
     [id |-> 3, waitlistId |-> 7, userId |-> 13, username |-> NoUsername]}
TypedNames == {"a", "a b"}

InitReach ==
    /\ waitlists = OwnedWaitlists
    /\ subscribers = OwnedSubscribers
    /\ nextWaitlistId = 8
    /\ nextSubscriberId = 4
    /\ verifiedUsers = {}
    /\ registrationMessages = EmptyMap
    /\ pendingSubscriptions = EmptyMap
    /\ nextMsgId = 1
    /\ handlers = EmptyMap
    /\ reply = NoReply
    /\ expiredAt = EmptyMap
    /\ closed = {}

NextReach ==
    \/ \E n \in TypedNames : BroadcastCmd(1, 1, n)
    \/ \E m \in DOMAIN handlers : BroadcastFind(m)
    \/ \E m \in DOMAIN handlers : BroadcastSubs(m)
    \/ \E m \in DOMAIN handlers, ok \in BOOLEAN : BroadcastSend(m, ok)

SpecReach == InitReach /\ [][NextReach]_vars

\* The process of Init while the waitlist is closed by its owner and opened
\* again under the same name by an admin (user 2) for bob.  User 1's probe fails
\* with an error other than the reachability error, so the subscribe is deferred
\* without a prompt; the store calls of /start succeed.  The commands
\* of the group chat arrive while no handler is in flight; /start arrives at
\* any time.  Messages are numbered from 0
\* here, which leaves room for the four commands.
InitReopen ==
    /\ waitlists = {Waitlist1}
    /\ subscribers = {}
    /\ nextWaitlistId = 2
    /\ nextSubscriberId = 1
    /\ verifiedUsers = {}
    /\ registrationMessages = EmptyMap
    /\ pendingSubscriptions = EmptyMap
    /\ nextMsgId = 0
    /\ handlers = EmptyMap
    /\ reply = NoReply
    /\ expiredAt = EmptyMap
    /\ closed = {}

NextReopen ==
    \/ InFlight = {} /\ SubscribeCmd(1, -1, "a")
    \/ \E m \in DOMAIN handlers : SubFind(m)
    \/ \E m \in DOMAIN handlers : SubExisting(m)
    \/ \E m \in DOMAIN handlers : SubProbe(m, "other")
    \/ \E m \in DOMAIN handlers : SubCreate(m)
    \/ CloseCmd(1, -1, "a")
    \/ \E m \in DOMAIN handlers : CloseFind(m)
    \/ \E m \in DOMAIN handlers : CloseAdmin(m, "member")
    \/ \E m \in DOMAIN handlers : CloseSubscribers(m)
    \/ \E m \in DOMAIN handlers : CloseWaitlist(m)
    \/ InFlight = {} /\ OpenCmd(2, -1, "a", "bob")
    \/ \E m \in DOMAIN handlers : OpenAdmin(m, "administrator")
    \/ \E m \in DOMAIN handlers : OpenFind(m)
    \/ \E m \in DOMAIN handlers : OpenCreate(m)
    \/ StartCmd(1, 1)
    \/ \E m \in DOMAIN handlers : StartFind(m, TRUE)
    \/ \E m \in DOMAIN handlers : StartExisting(m, TRUE)
    \/ \E m \in DOMAIN handlers : StartCreate(m, TRUE)
    \/ \E m \in DOMAIN handlers : StartReact(m, TRUE)

SpecReopen == InitReopen /\ [][NextReopen]_vars

\* The process of Init when user 1's first message is /subscribe a in the group.
\* /unsubscribe a and the private /start arrive while no handler is in flight,
\* and no subscribe command follows.
NextRejoin ==
    \/ nextMsgId = 1 /\ SubscribeCmd(1, -1, "a")
    \/ \E m \in DOMAIN handlers : SubFind(m)
    \/ \E m \in DOMAIN handlers : SubExisting(m)
    \/ \E m \in DOMAIN handlers, r \in ProbeResults : SubProbe(m, r)
    \/ \E m \in DOMAIN handlers, ok \in BOOLEAN : SubPrompt(m, ok)
    \/ \E m \in DOMAIN handlers : SubCreate(m)
    \/ \E p \in DOMAIN handlers : ExpiryFire(p)
    \/ \E p \in DOMAIN handlers, ok \in BOOLEAN : ExpiryDelete(p, ok)
    \/ InFlight = {} /\ \E c \in {1, -1} : UnsubscribeCmd(1, c, "a")
    \/ \E m \in DOMAIN handlers : UnsubFind(m)
    \/ \E m \in DOMAIN handlers, ok \in BOOLEAN : UnsubDelete(m, ok)
    \/ InFlight = {} /\ StartCmd(1, 1)
    \/ \E m \in DOMAIN handlers, ok \in BOOLEAN : StartFind(m, ok)
    \/ \E m \in DOMAIN handlers, ok \in BOOLEAN : StartExisting(m, ok)
    \/ \E m \in DOMAIN handlers, ok \in BOOLEAN : StartCreate(m, ok)
    \/ \E m \in DOMAIN handlers, ok \in BOOLEAN : StartDelete(m, ok)
    \/ \E m \in DOMAIN handlers, ok \in BOOLEAN : StartReact(m, ok)

\* An awaited store or transport call of a /start handler returns a result.
StartAwaitReturns ==
    \E m \in DOMAIN handlers :
        \/ StartDelete(m, TRUE)
        \/ StartFind(m, TRUE)
        \/ StartExisting(m, TRUE)
        \/ StartCreate(m, TRUE)
        \/ StartReact(m, TRUE)

SpecRejoin == Init /\ [][NextRejoin]_vars /\ WF_vars(StartAwaitReturns)

\* A fresh process on a store in which group -1 has the waitlist "A b".  User 1
\* sends both kinds of subscribe command there: /subscribe A b and
\* /subscribe_a_b, which finds the waitlist by its sanitized name.
InitBoth ==
    /\ waitlists = {Waitlist6}
    /\ subscribers = {}
    /\ nextWaitlistId = 7
    /\ nextSubscriberId = 1
    /\ verifiedUsers = {}
    /\ registrationMessages = EmptyMap
    /\ pendingSubscriptions = EmptyMap
    /\ nextMsgId = 1
    /\ handlers = EmptyMap
    /\ reply = NoReply
    /\ expiredAt = EmptyMap
    /\ closed = {}

NextBoth ==
    \/ SubscribeCmd(1, -1, "A b")
    \/ \E m \in DOMAIN handlers : SubFind(m)
    \/ \E m \in DOMAIN handlers : SubExisting(m)
    \/ DynSubscribeCmd(1, -1, "a_b")
    \/ \E m \in DOMAIN handlers : DynFind(m)
    \/ \E m \in DOMAIN handlers : DynFindAll(m)
    \/ \E m \in DOMAIN handlers : DynExisting(m)
    \/ \E m \in DOMAIN handlers, r \in ProbeResults : SubProbe(m, r)
    \/ \E m \in DOMAIN handlers, ok \in BOOLEAN : SubPrompt(m, ok)
    \/ \E m \in DOMAIN handlers : SubCreate(m)

SpecBoth == InitBoth /\ [][NextBoth]_vars


\* ------------------------------------------------------------------ claims
\* The records of the handlers in flight and of the one that just ended.
Records == {handlers[m] : m \in DOMAIN handlers} \cup {reply}

\* C1: the store holds at most one Subscriber row for any (waitlist, user) pair.
C1_UniqueSubscriber ==
    \A s \in subscribers, t \in subscribers :
        (s.waitlistId = t.waitlistId /\ s.userId = t.userId) => s = t

\* A subscribe handler whose probe failed with the reachability error has just ended.
UnreachableEnded ==
    /\ reply.kind = "subscribe"
    /\ reply.outcome = "deferred"
    /\ reply.probe = "unreachable"

\* What C2 promises at the end of that handler: no row created, one prompt
\* posted, the prompt and the attempt recorded.
DeferredRecorded ==
    /\ reply.created = 0
    /\ reply.prompted # 0
    /\ reply.user \in DOMAIN registrationMessages
    /\ registrationMessages[reply.user] = [messageId |-> reply.prompted, chatId |-> reply.chat]
    /\ reply.user \in DOMAIN pendingSubscriptions
    /\ pendingSubscriptions[reply.user] =
           [productName |-> reply.waitlist.name, messageId |-> reply.id, chatId |-> reply.chat,
                resolved |-> reply.waitlist.id]

\* C2 as stated: whenever a group subscribe handler ends after its probe failed
\* with the reachability error, no row was created, one prompt was posted, and
\* the PendingPrompt and the PendingSubscription are recorded.
C2_Original == UnreachableEnded => DeferredRecorded

\* C2 amended: at the end of such a handler no row was created and the
\* PendingSubscription is recorded; if posting the prompt succeeded, the prompt
\* is the user's PendingPrompt.
C2_DeferredWhenPrompted ==
    UnreachableEnded =>
        /\ reply.created = 0
        /\ reply.user \in DOMAIN pendingSubscriptions
        /\ pendingSubscriptions[reply.user] =
               [productName |-> reply.waitlist.name, messageId |-> reply.id, chatId |-> reply.chat,
                resolved |-> reply.waitlist.id]
        /\ reply.prompted # 0 =>
               /\ reply.user \in DOMAIN registrationMessages
               /\ registrationMessages[reply.user] =
                      [messageId |-> reply.prompted, chatId |-> reply.chat]

C2_Witness == UnreachableEnded /\ reply.prompted # 0 /\ DeferredRecorded

\* A private /start has just ended that found the user's prompt when it was
\* issued, then the pending subscription, and whose lookup found the waitlist.
StartCompleted ==
    /\ reply.kind = "start"
    /\ reply.outcome = "welcome"
    /\ reply.deleted # 0
    /\ reply.subscription # NoSubscription
    /\ reply.waitlist # NoWaitlist

RowsOfReply == SubscribersOf(reply.waitlist.id, reply.user)

EntriesGone ==
    /\ reply.user \notin DOMAIN registrationMessages
    /\ reply.user \notin DOMAIN pendingSubscriptions

C4_ExpiredNeverCompleted ==
    /\ (reply.kind = "expiry" /\ reply.outcome = "expired") =>
           reply.user \notin DOMAIN pendingSubscriptions
    /\ \A a \in DOMAIN expiredAt :
           /\ \A u \in DOMAIN pendingSubscriptions : pendingSubscriptions[u].messageId # a
           /\ \A h \in Records :
                  (h.kind = "start" /\ h.id >= expiredAt[a]) => h.subscription.messageId # a

\* An attempt expired, and a /start issued afterwards has ended without a row.
C4_Witness ==
    /\ reply.kind = "start"
    /\ reply.outcome = "welcome"
    /\ \E a \in DOMAIN expiredAt : reply.id >= expiredAt[a]
    /\ subscribers = {}

\* C5: a user has a PendingSubscription entry only if the same user has a
\* PendingPrompt entry.
C5_PendingOnlyWithPrompt ==
    DOMAIN pendingSubscriptions \subseteq DOMAIN registrationMessages

\* C6: VerifiedUsers only grows.
C6_VerifiedMonotonic == [][verifiedUsers \subseteq verifiedUsers']_vars

\* A verified user after a later expiry callback has run to its end.
C6_Witness ==
    /\ verifiedUsers # {}
    /\ reply.kind = "expiry"
    /\ reply.outcome = "expired"
    /\ reply.user \in verifiedUsers

\* C7: at most one Waitlist exists for any (chat, name) pair.
C7_UniqueWaitlist ==
    \A w \in waitlists, x \in waitlists :
        (w.chatId = x.chatId /\ w.name = x.name) => w = x

\* C8: once a /closewaitlist has reported success, the waitlist is gone and no
\* Subscriber row references it, in that state and in every later one.
C8_ClosedStaysEmpty ==
    \A id \in closed :
        /\ \A w \in waitlists : w.id # id
        /\ \A s \in subscribers : s.waitlistId # id

\* A /start that had resolved the waitlist before it was closed has had its
\* insert refused.
C8_Witness ==
    /\ closed # {}
    /\ reply.kind = "start"
    /\ reply.threw
    /\ reply.waitlist.id \in closed
    /\ reply.created = 0

\* The sender of h owns a waitlist with the name h gives.
OwnsNamed(h) ==
    /\ UsernameOf(h.user) # NoUsername
    /\ \E w \in waitlists : w.name = h.name /\ w.ownerUsername = UsernameOf(h.user)

C9_NoSend ==
    \A h \in Records :
        (h.kind = "broadcast" /\ (~IsPrivateChat(h.chat) \/ ~OwnsNamed(h))) =>
            /\ h.pc \notin {"bc_subs", "bc_send"}
            /\ h.outcome # "broadcast"
            /\ h.subs = <<>>
            /\ h.attempted = <<>>
            /\ h.sentCount = 0

\* C9: a /broadcast from a non-private chat, or by a sender who does not own a
\* waitlist of that name (a sender without username included), attempts no
\* send, and no step of a broadcast changes the store or the registration state.
C9_RejectedBroadcast ==
    /\ []C9_NoSend
    /\ [][UNCHANGED <<store, registration>>]_vars

\* A sender without a username, whose lookup did return a waitlist of that name,
\* has been refused in a private chat without a send.
C9_Witness ==
    /\ reply.kind = "broadcast"
    /\ reply.outcome = "forbidden"
    /\ UsernameOf(reply.user) = NoUsername
    /\ reply.waitlist # NoWaitlist
    /\ reply.attempted = <<>>

\* C10: a broadcast that fetched N subscribers attempts a send to each of them,
\* in order, whatever sends fail, and reports N minus the number of failures.
C10_BroadcastCounts ==
    /\ \A h \in Records :
           (h.kind = "broadcast" /\ h.subs # <<>>) =>
               /\ h.outcome \in {"", "broadcast"}
               /\ Len(h.attempted) <= Len(h.subs)
               /\ \A i \in 1..Len(h.attempted) : h.attempted[i] = h.subs[i].userId
               /\ h.sentCount + Len(h.failedUsers) = Len(h.attempted)
    /\ (reply.kind = "broadcast" /\ reply.subs # <<>>) =>
           /\ Len(reply.attempted) = Len(reply.subs)
           /\ reply.sentCount = Len(reply.subs) - Len(reply.failedUsers)

\* A broadcast to MaxSubs subscribers has ended after its first send failed and
\* a later one was delivered.
C10_Witness ==
    /\ reply.kind = "broadcast"
    /\ reply.outcome = "broadcast"
    /\ Len(reply.subs) = MaxSubs
    /\ Len(reply.failedUsers) >= 1
    /\ reply.failedUsers[1] = reply.subs[1].userId
    /\ reply.sentCount >= 1

\* C11: a subscribe command issued after the same user's subscription to the
\* same waitlist exists, and run with no other handler in between, creates no
\* row, posts no prompt and records no pending entry of its own.
C11_SecondSubscribeNoOp ==
    (/\ reply.kind = "subscribe"
     /\ reply.solo
     /\ reply.waitlist # NoWaitlist
     /\ \E s \in subscribers : /\ s.waitlistId = reply.waitlist.id
                               /\ s.userId = reply.user
                               /\ s.id # reply.created) =>
        /\ reply.outcome = "already"
        /\ reply.created = 0
        /\ reply.prompted = 0
        /\ reply.user \in DOMAIN pendingSubscriptions =>
               pendingSubscriptions[reply.user].messageId # reply.id

\* A second subscribe has ended with the one row of the first still alone.
C11_Witness ==
    /\ reply.kind = "subscribe"
    /\ reply.solo
    /\ reply.outcome = "already"
    /\ Cardinality({s \in subscribers : s.waitlistId = reply.waitlist.id
                                       /\ s.userId = reply.user}) = 1
    /\ reply.user \notin DOMAIN pendingSubscriptions

\* C18: every exception that left a handler was caught by bot.catch and answered
\* with a failure reply to the chat.
C18_EscapedAnswered ==
    \A h \in Records : h.outcome = "error" => (h.caught /\ h.failureReply)

\* C19: when no handler is in flight, a verified user has neither a
\* PendingPrompt nor a PendingSubscription entry.
C19_ExclusiveStates ==
    InFlight = {} =>
        \A u \in verifiedUsers :
            u \notin DOMAIN registrationMessages /\ u \notin DOMAIN pendingSubscriptions

\* C20: an expiry callback scheduled for prompt P (its timer carries P's message
\* id) deletes P's message only.
C20_OwnPromptOnly ==
    \A h \in Records :
        (h.kind = "expiry" /\ h.msgInfo # NoMsgInfo) => h.msgInfo.messageId = h.id

\* C13: if every scheduled timer fires, a user who has a PendingPrompt entry
\* eventually has none.
C13_PromptEventuallyRemoved ==
    \A u \in RegUsers :
        (u \in DOMAIN registrationMessages) ~> (u \notin DOMAIN registrationMessages)

\* The callback of a prompt's own timer has removed the user's entry.
C13_Witness ==
    /\ reply.kind = "expiry"
    /\ reply.outcome = "expired"
    /\ reply.deleted = reply.id
    /\ reply.user \notin DOMAIN registrationMessages

\* C12: an /unsubscribe naming an existing waitlist (of the chat, in a group
\* chat) ends with the acknowledgement.
C12_UnsubscribeAcknowledged ==
    (/\ reply.kind = "unsubscribe"
     /\ \E w \in waitlists : /\ w.name = reply.name
                             /\ ~IsPrivateChat(reply.chat) => w.chatId = reply.chat) =>
        reply.outcome = "unsubscribed"

\* C14: while every command is issued in group -1, the waitlists of the other
\* chats and their subscribers stay what they were, and no row is created for
\* another chat.
C14_ChatIsolation ==
    /\ {w \in waitlists : w.chatId # -1} = OtherChatWaitlists
    /\ {s \in subscribers : \E w \in OtherChatWaitlists : s.waitlistId = w.id}
           = OtherChatSubscribers
    /\ \A s \in subscribers : \E w \in OtherChatWaitlists \cup waitlists : s.waitlistId = w.id

\* In group -1 the waitlist "a" has been closed, "A b" has been opened, and the
\* user has a subscription there.
C14_Witness ==
    /\ 1 \in closed
    /\ \E w \in waitlists : w.chatId = -1 /\ w.name = "A b"
    /\ \E s \in subscribers : \E w \in waitlists : w.chatId = -1 /\ s.waitlistId = w.id

\* C15: when a /closewaitlist of a chat admin, run alone, has ended, the named
\* waitlist of the chat is gone.
C15_AdminCloses ==
    (/\ reply.kind = "closewaitlist"
     /\ reply.solo
     /\ MemberStatus(reply.user) \in AdminStatuses) =>
        /\ reply.outcome \in {"closed", "notfound"}
        /\ \A w \in waitlists : ~(w.name = reply.name /\ w.chatId = reply.chat)

\* C16: a /closewaitlist of a sender who is neither a chat admin nor the owner
\* of the waitlist it found never reaches the deletions and is never reported
\* as done.
C16_RefusedClose ==
    \A h \in Records :
        (/\ h.kind = "closewaitlist"
         /\ MemberStatus(h.user) \notin AdminStatuses
         /\ h.waitlist # NoWaitlist => h.waitlist.ownerUsername # UsernameOf(h.user)) =>
            /\ h.pc \notin {"cl_subscribers", "cl_waitlist"}
            /\ h.outcome \notin {"closed", "error"}

\* bob, who has a username and is neither owner nor admin, has been refused;
\* the waitlist and its subscriber are untouched.
C16_Witness ==
    /\ reply.kind = "closewaitlist"
    /\ reply.outcome = "forbidden"
    /\ UsernameOf(reply.user) # NoUsername
    /\ reply.waitlist = Waitlist1
    /\ Waitlist1 \in waitlists
    /\ subscribers = AdminSubscribers

C17_NonAdminOpens ==
    \A h \in Records :
        (h.kind = "openwaitlist" /\ MemberStatus(h.user) \notin AdminStatuses) =>
            /\ h.pc \notin {"op_find", "op_create"}
            /\ h.outcome \notin {"created", "exists"}
            /\ h.waitlist = NoWaitlist

C17_RowByAdmin ==
    (~(waitlists' \subseteq waitlists)) =>
        \E m \in DOMAIN handlers :
            /\ handlers[m].kind = "openwaitlist"
            /\ handlers[m].pc = "op_create"
            /\ MemberStatus(handlers[m].user) \in AdminStatuses
            /\ reply'.id = m
            /\ reply'.outcome = "created"

\* C17: an /openwaitlist of a non-admin never reaches the lookup or the insert,
\* and every step that adds a Waitlist row is the insert of an admin's
\* /openwaitlist.
C17_AdminOnlyOpen == []C17_NonAdminOpens /\ [][C17_RowByAdmin]_vars

\* An admin has opened "b", and a later /openwaitlist b of a plain member has
\* been refused.
C17_Witness ==
    /\ reply.kind = "openwaitlist"
    /\ reply.outcome = "forbidden"
    /\ MemberStatus(reply.user) = "member"
    /\ Cardinality({w \in waitlists : w.name = "b"}) = 1

\* Message ids a prompt can get: every command may be followed by one prompt.
PromptIds == 1..(2 * MaxMsgId)

\* C21: if every timer fires, every prompt the bot has posted eventually has its
\* deletion attempted, by an expiry callback or by a /start.
C21_PromptEventuallyDeleted ==
    \A p \in PromptIds :
        (reply.prompted = p) ~> (\E h \in Records : h.deleted = p)

\* C22: if every timer fires, a user who has a PendingSubscription entry
\* eventually has none.
C22_PendingEventuallyRemoved ==
    \A u \in RegUsers :
        (u \in DOMAIN pendingSubscriptions) ~> (u \notin DOMAIN pendingSubscriptions)

\* The timers scheduled and not yet fired or finished.
Timers == {m \in DOMAIN handlers : handlers[m].kind = "expiry"}

\* The handler of command m takes its step from position pc in this transition.
Steps(m, pc) ==
    /\ m \in DOMAIN handlers
    /\ handlers[m].pc = pc
    /\ (m \in DOMAIN handlers' => handlers'[m].pc # pc)

\* C23: a probe that fails with an error other than the reachability error ends
\* the gate with false: the attempt is deferred, no prompt is posted, no
\* PendingPrompt entry is recorded, no timer is scheduled and VerifiedUsers is
\* unchanged.
C23_OtherFailureStep ==
    \A m \in DOMAIN handlers :
        (Steps(m, "sub_probe") /\ m \notin DOMAIN handlers' /\ reply'.id = m
            /\ reply'.probe = "other")
        => /\ reply'.outcome = "deferred"
           /\ reply'.prompted = 0
           /\ nextMsgId' = nextMsgId
           /\ registrationMessages' = registrationMessages
           /\ verifiedUsers' = verifiedUsers
           /\ Timers' = Timers

C23_OtherFailureQuiet ==
    /\ [](\A h \in Records :
            h.probe = "other" => h.pc = "done" /\ h.outcome = "deferred" /\ h.prompted = 0)
    /\ [][C23_OtherFailureStep]_vars

C23_Witness ==
    /\ reply.kind = "subscribe"
    /\ reply.probe = "other"
    /\ reply.outcome = "deferred"
    /\ reply.user \notin verifiedUsers
    /\ reply.user \notin DOMAIN registrationMessages
    /\ Timers = {}

\* C24: an expiry callback that found the user's PendingPrompt entry leaves the
\* user with neither a PendingPrompt nor a PendingSubscription entry when it
\* ends, whether the deletion of the prompt succeeded or failed.
C24_ExpiryClearsBoth ==
    \A ok \in BOOLEAN :
        (reply.kind = "expiry" /\ reply.msgInfo # NoMsgInfo /\ reply.threw = ~ok)
        => /\ reply.pc = "done"
           /\ reply.user \notin DOMAIN registrationMessages
           /\ reply.user \notin DOMAIN pendingSubscriptions

C24_Witness ==
    /\ reply.kind = "expiry"
    /\ reply.msgInfo # NoMsgInfo
    /\ reply.threw
    /\ reply.deleted = reply.msgInfo.messageId
    /\ reply.user \notin DOMAIN registrationMessages
    /\ reply.user \notin DOMAIN pendingSubscriptions

\* C25: an expiry callback that runs when the user no longer has a PendingPrompt
\* entry (a /start removed it) ends at once: it attempts no deletion and changes
\* neither the registration state nor the store.
C25_StaleStep ==
    \A p \in DOMAIN handlers :
        (Steps(p, "timer") /\ handlers[p].user \notin DOMAIN registrationMessages)
        => /\ p \notin DOMAIN handlers'
           /\ reply'.id = p
           /\ reply'.outcome = "stale"
           /\ reply'.deleted = 0
           /\ UNCHANGED <<store, registration, nextMsgId>>

C25_StaleExpiryNoOp ==
    /\ [](\A h \in Records :
            (h.kind = "expiry" /\ h.outcome = "stale") => h.deleted = 0 /\ ~h.threw)
    /\ [][C25_StaleStep]_vars

C25_Witness ==
    /\ reply.kind = "expiry"
    /\ reply.outcome = "stale"
    /\ reply.deleted = 0
    /\ reply.user \in verifiedUsers
    /\ \E s \in subscribers : s.userId = reply.user

\* C26: a private /start that found a PendingSubscription for the user has
\* attempted the reaction on the user's original subscribe message when it ends,
\* whatever became of the deferred subscription.
C26_ReactionAlwaysAttempted ==
    (reply.kind = "start" /\ reply.subscription # NoSubscription)
    => reply.reacted = reply.subscription.messageId

\* C27: a /start in the private chat never fails visibly.  Whatever fails among
\* the prompt deletion, the store calls and the reaction, the handler ends with
\* the welcome reply, the user verified, and the PendingPrompt and
\* PendingSubscription entries it found removed.
C27_StartNeverFails ==
    /\ \A h \in Records :
           (h.kind = "start" /\ IsPrivateChat(h.chat)) =>
               /\ h.user \in verifiedUsers
               /\ ~h.caught
               /\ h.outcome \in {"", "welcome"}
    /\ (reply.kind = "start" /\ IsPrivateChat(reply.chat)) =>
           /\ reply.pc = "done"
           /\ reply.outcome = "welcome"
           /\ reply.msgInfo # NoMsgInfo =>
                  /\ reply.deleted = reply.msgInfo.messageId
                  /\ reply.user \in DOMAIN registrationMessages =>
                         registrationMessages[reply.user] # reply.msgInfo
           /\ reply.subscription # NoSubscription =>
                  reply.user \notin DOMAIN pendingSubscriptions

C27_Witness ==
    /\ reply.kind = "start"
    /\ reply.outcome = "welcome"
    /\ reply.msgInfo # NoMsgInfo
    /\ reply.subscription # NoSubscription
    /\ reply.threw
    /\ reply.reacted = 0
    /\ reply.created = 0
    /\ reply.user \in verifiedUsers
    /\ reply.user \notin DOMAIN registrationMessages
    /\ reply.user \notin DOMAIN pendingSubscriptions

\* C28: a /start received in a chat that is not private ends with the group
\* reply and leaves VerifiedUsers, PendingPrompt, PendingSubscription and the
\* store as they were.
C28_GroupStartStep ==
    (reply'.kind = "start" /\ reply'.id = nextMsgId /\ ~IsPrivateChat(reply'.chat))
    => /\ reply'.outcome = "group"
       /\ UNCHANGED <<store, registration>>

C28_GroupStartNoOp ==
    /\ [](\A h \in Records :
            (h.kind = "start" /\ ~IsPrivateChat(h.chat)) =>
                /\ h.pc = "done"
                /\ h.outcome = "group"
                /\ h.deleted = 0 /\ h.created = 0 /\ h.reacted = 0)
    /\ [][C28_GroupStartStep]_vars

C28_Witness ==
    /\ reply.kind = "start"
    /\ reply.outcome = "group"
    /\ reply.user \notin verifiedUsers
    /\ reply.user \in DOMAIN registrationMessages
    /\ reply.user \in DOMAIN pendingSubscriptions

\* The gate is entered in this transition by the group subscribe handler m: its
\* lookup of an existing row returns and finds none.
EntersGate(m) ==
    /\ Steps(m, "sub_existing")
    /\ ~IsPrivateChat(handlers[m].chat)
    /\ SubscribersOf(handlers[m].waitlist.id, handlers[m].user) = {}

\* Nothing is sent and nothing scheduled in this transition, and VerifiedUsers and
\* PendingPrompt stay as they are.
NoTraffic ==
    /\ nextMsgId' = nextMsgId
    /\ Timers' = Timers
    /\ verifiedUsers' = verifiedUsers
    /\ registrationMessages' = registrationMessages

\* C29: the gate answers without network traffic when it can: true for a user in
\* VerifiedUsers (the handler goes on to create the row), false for an unverified
\* user who has a PendingPrompt (the attempt is deferred); in both cases no probe
\* and no prompt is sent, no timer is scheduled, and VerifiedUsers and
\* PendingPrompt are unchanged.
C29_GateStep ==
    \A m \in DOMAIN handlers :
        EntersGate(m) =>
            LET u == handlers[m].user
            IN  /\ u \in verifiedUsers =>
                       /\ m \in DOMAIN handlers'
                       /\ handlers'[m].pc = "sub_create"
                       /\ handlers'[m].probe = ""
                       /\ handlers'[m].prompted = 0
                       /\ NoTraffic
                /\ (u \notin verifiedUsers /\ u \in DOMAIN registrationMessages) =>
                       /\ m \notin DOMAIN handlers'
                       /\ reply'.id = m
                       /\ reply'.outcome = "deferred"
                       /\ reply'.probe = ""
                       /\ reply'.prompted = 0
                       /\ NoTraffic

C29_GateShortCircuits == [][C29_GateStep]_vars

C29_Witness ==
    /\ reply.kind = "subscribe"
    /\ reply.outcome = "deferred"
    /\ reply.probe = ""
    /\ reply.prompted = 0
    /\ reply.user \notin verifiedUsers
    /\ reply.user \in DOMAIN registrationMessages
    /\ reply.user \in DOMAIN pendingSubscriptions
    /\ pendingSubscriptions[reply.user].messageId = reply.id

\* The other short circuit: a verified user's subscribe created its row without
\* a probe.
C29_VerifiedReached ==
    /\ reply.kind = "subscribe"
    /\ reply.outcome = "subscribed"
    /\ reply.probe = ""
    /\ reply.created # 0
    /\ reply.user \in verifiedUsers

\* A group subscribe whose probe was delivered has neither posted a prompt nor
\* deferred its attempt, and its user is verified.
ProbeOkGoesOn ==
    \A h \in Records :
        (h.kind = "subscribe" /\ h.probe = "ok") =>
            /\ h.user \in verifiedUsers
            /\ h.prompted = 0
            /\ h.outcome # "deferred"
            /\ h.user \in DOMAIN pendingSubscriptions =>
                   pendingSubscriptions[h.user].messageId # h.id

\* The handler that ended in the last step created the row it reports.
RowCreated ==
    /\ reply.outcome = "subscribed"
    /\ \E s \in subscribers :
           /\ s.id = reply.created
           /\ s.userId = reply.user
           /\ s.waitlistId = reply.waitlist.id

\* The step in which the probe of handler m is delivered, and the step of its
\* insert: the first adds the user to VerifiedUsers and goes on to the insert,
\* and neither posts a message, schedules a timer or records an entry.
ProbeOkStep ==
    \A m \in DOMAIN handlers :
        /\ (Steps(m, "sub_probe") /\ m \in DOMAIN handlers' /\ handlers'[m].probe = "ok")
           => /\ handlers'[m].pc = "sub_create"
              /\ verifiedUsers' = verifiedUsers \cup {handlers[m].user}
              /\ nextMsgId' = nextMsgId
              /\ Timers' = Timers
              /\ UNCHANGED <<registrationMessages, pendingSubscriptions>>
        /\ (Steps(m, "sub_create") /\ handlers[m].probe = "ok")
           => /\ nextMsgId' = nextMsgId
              /\ Timers' = Timers
              /\ UNCHANGED registration

\* C30 as stated: when the probe succeeds for an unverified user in a group
\* subscribe, the user is verified, nothing is posted or recorded, and the
\* Subscriber row is created within the same handler.
C30_Original ==
    /\ ProbeOkGoesOn
    /\ (reply.kind = "subscribe" /\ reply.probe = "ok") => RowCreated

\* C30 amended: the same, and the row is created within the same handler unless
\* the waitlist was closed after the handler had looked it up; then the insert
\* throws and the handler ends without a row.
C30_RowUnlessClosed ==
    /\ ProbeOkGoesOn
    /\ (reply.kind = "subscribe" /\ reply.probe = "ok") =>
           \/ RowCreated
           \/ /\ reply.waitlist.id \in closed
              /\ reply.outcome = "error"
              /\ reply.created = 0
              /\ SubscribersOf(reply.waitlist.id, reply.user) = {}

C30_ProbeOkSubscribes == []C30_RowUnlessClosed /\ [][ProbeOkStep]_vars

\* The other outcome: the waitlist was closed under the handler and the insert threw.
C30_ClosedReached ==
    /\ reply.kind = "subscribe"
    /\ reply.probe = "ok"
    /\ reply.outcome = "error"
    /\ reply.waitlist.id \in closed

C30_Witness ==
    /\ reply.kind = "subscribe"
    /\ reply.probe = "ok"
    /\ RowCreated
    /\ reply.user \in verifiedUsers
    /\ reply.user \notin DOMAIN registrationMessages
    /\ reply.user \notin DOMAIN pendingSubscriptions
    /\ Timers = {}

\* The handler of a subscribe command ends in this transition with its attempt
\* deferred: the user's PendingSubscription is now this attempt, whatever the
\* user held before.
DeferralReplaces ==
    (reply'.outcome = "deferred" /\ reply'.id \in DOMAIN handlers) =>
        /\ reply'.user \in DOMAIN pendingSubscriptions'
        /\ pendingSubscriptions'[reply'.user] =
               [productName |-> ProductName(reply'), messageId |-> reply'.id,
                chatId |-> reply'.chat, resolved |-> reply'.waitlist.id]

\* Only a deferral puts an entry into PendingSubscription or changes one.
OnlyDeferralSets ==
    \A u \in DOMAIN pendingSubscriptions' :
        (u \notin DOMAIN pendingSubscriptions
            \/ pendingSubscriptions'[u] # pendingSubscriptions[u])
        => reply'.outcome = "deferred" /\ reply'.user = u

\* A /start that goes on to the deferred subscription takes the entry the user
\* holds at that moment.
StartTakesHeld ==
    \A m \in DOMAIN handlers' :
        (handlers'[m].kind = "start" /\ handlers'[m].pc = "st_find"
            /\ (m \notin DOMAIN handlers \/ handlers[m].pc # "st_find"))
        => /\ handlers'[m].user \in DOMAIN pendingSubscriptions
           /\ handlers'[m].subscription = pendingSubscriptions[handlers'[m].user]

\* A /start creates at most the row of the waitlist named in the entry it took.
StartRowOfTaken ==
    \A h \in Records :
        (h.kind = "start" /\ h.created # 0) =>
            /\ h.waitlist.name = h.subscription.productName
            /\ h.waitlist.chatId = h.subscription.chatId
            /\ \A s \in subscribers :
                   s.id = h.created => (s.waitlistId = h.waitlist.id /\ s.userId = h.user)

\* C31: a user holds one PendingSubscription at most: a deferred subscribe
\* replaces the one held, and a later /start in the private chat creates a row
\* only for the waitlist of the entry held then, the most recently deferred one.
C31_LatestDeferralOnly ==
    /\ []StartRowOfTaken
    /\ [][DeferralReplaces /\ OnlyDeferralSets /\ StartTakesHeld]_vars

C31_Witness ==
    /\ reply.kind = "start"
    /\ reply.id = 3
    /\ reply.subscription.messageId = 2
    /\ reply.subscription.productName = "b"
    /\ reply.created # 0
    /\ InFlight = {}
    /\ \A s \in subscribers : s.waitlistId = Waitlist3.id

\* The letters of a command in lower case.
RECURSIVE LowerAll(_)
LowerAll(seq) == IF seq = <<>> THEN <<>> ELSE <<Lower(Head(seq))>> \o LowerAll(Tail(seq))

\* The waitlists of chat c whose sanitized name is cmd up to letter case.
SameUpToCase(cmd, c) ==
    {w \in waitlists : /\ w.chatId = c
                       /\ Sanitized(Letters(w.name)) = LowerAll(Letters(cmd))}

\* C32: /subscribe_<cmd> is case-insensitive: in whatever casing <cmd> is typed,
\* it resolves to a waitlist of the chat whose sanitized name equals <cmd> up to
\* letter case, when there is one.
C32_CaseInsensitive ==
    (reply.kind = "dynsubscribe" /\ SameUpToCase(reply.name, reply.chat) # {})
    => /\ reply.outcome # "notfound"
       /\ reply.waitlist \in SameUpToCase(reply.name, reply.chat)

\* Underscores turned into spaces.
RECURSIVE Unsanitized(_)
Unsanitized(seq) ==
    IF seq = <<>> THEN <<>>
    ELSE <<IF Head(seq) = "_" THEN " " ELSE Head(seq)>> \o Unsanitized(Tail(seq))

\* The waitlists of chat c named cmd with its underscores turned into spaces.
NamedAsTyped(cmd, c) ==
    {w \in waitlists : w.chatId = c /\ Letters(w.name) = Unsanitized(Letters(cmd))}

\* The waitlists of chat c whose sanitized name is cmd as typed.
SanitizedAsTyped(cmd, c) ==
    {w \in waitlists : w.chatId = c /\ Sanitized(Letters(w.name)) = Letters(cmd)}

\* The waitlist a dynamic subscribe handler works on comes from the lookup by
\* exact name if that finds one, else from the sanitized names; if neither finds
\* one the handler ends with the not-found reply.
ResolvedInTwoPhases(h) ==
    IF NamedAsTyped(h.name, h.chat) # {}
    THEN h.waitlist \in NamedAsTyped(h.name, h.chat)
    ELSE IF SanitizedAsTyped(h.name, h.chat) # {}
    THEN h.waitlist \in SanitizedAsTyped(h.name, h.chat)
    ELSE /\ h.waitlist = NoWaitlist
         /\ h.outcome = "notfound"
         /\ h.created = 0 /\ h.probe = "" /\ h.prompted = 0

\* A dynamic subscribe that ends with the not-found reply changes neither the
\* store nor the registration state.
NotFoundStep ==
    (reply'.kind = "dynsubscribe" /\ reply'.outcome = "notfound"
        /\ reply'.id \in DOMAIN handlers)
    => UNCHANGED <<store, registration>>

\* C33: /subscribe_<cmd> resolves in two phases: to the waitlist of the chat
\* named <cmd> with underscores turned into spaces if there is one, otherwise to
\* a waitlist of the chat whose sanitized name is <cmd>; if there is neither, no
\* row and no pending entry is created.
C33_TwoPhaseResolution ==
    /\ [](\A h \in Records :
            (h.kind = "dynsubscribe" /\ h.pc \notin {"dyn_find", "dyn_findall"})
            => ResolvedInTwoPhases(h))
    /\ [][NotFoundStep]_vars

C33_Witness ==
    /\ reply.kind = "dynsubscribe"
    /\ reply.name = "a_b"
    /\ waitlists = {Waitlist5, Waitlist6}
    /\ reply.waitlist = Waitlist5
    /\ \E s \in subscribers : s.id = reply.created /\ s.waitlistId = Waitlist5.id

\* The second phase: only the sanitized name matches.
C33_SanitizedReached ==
    /\ reply.kind = "dynsubscribe"
    /\ reply.name = "a_b"
    /\ reply.waitlist = Waitlist6
    /\ reply.outcome = "subscribed"

\* Neither phase finds a waitlist.
C33_NotFoundReached ==
    /\ reply.kind = "dynsubscribe"
    /\ reply.name = "A_B"
    /\ reply.outcome = "notfound"
    /\ pendingSubscriptions # EmptyMap

\* C34: every recipient of a broadcast sent by O for the name N is a subscriber
\* of one waitlist named N whose owner is O; a sender without username has no
\* recipients, and the subscribers of a waitlist of that name owned by someone
\* else get nothing.
C34_RecipientsOfOwnWaitlist ==
    \A h \in Records :
        (h.kind = "broadcast" /\ h.attempted # <<>>) =>
            /\ UsernameOf(h.user) # NoUsername
            /\ h.waitlist \in waitlists
            /\ Letters(h.waitlist.name) = Args0(Letters(h.name))
            /\ h.waitlist.ownerUsername = UsernameOf(h.user)
            /\ \A i \in 1..Len(h.attempted) :
                   \E s \in subscribers :
                       s.userId = h.attempted[i] /\ s.waitlistId = h.waitlist.id
            /\ \A s \in subscribers :
                   (\E i \in 1..Len(h.attempted) : h.attempted[i] = s.userId) =>
                       \A w \in waitlists :
                           w.id = s.waitlistId => w.ownerUsername = UsernameOf(h.user)

\* Alice's broadcast for "a" has ended, delivered to the subscribers of her
\* waitlist, while bob's waitlist of the same name has a subscriber who got
\* nothing.
C34_Witness ==
    /\ reply.kind = "broadcast"
    /\ reply.outcome = "broadcast"
    /\ reply.waitlist = Waitlist1
    /\ reply.sentCount = Len(reply.subs)
    /\ reply.sentCount >= 1
    /\ \E s \in subscribers :
           /\ s.waitlistId = Waitlist2.id
           /\ \A i \in 1..Len(reply.attempted) : reply.attempted[i] # s.userId

\* C35: the owner's /broadcast for the name of a waitlist, sent from the private
\* chat, attempts a send to every subscriber of every waitlist of that name the
\* sender owns.
C35_OwnerReachesAll ==
    (reply.kind = "broadcast" /\ IsPrivateChat(reply.chat)) =>
        \A w \in waitlists :
            (w.name = reply.name /\ w.ownerUsername = UsernameOf(reply.user)) =>
                \A s \in subscribers :
                    s.waitlistId = w.id =>
                        \E i \in 1..Len(reply.attempted) : reply.attempted[i] = s.userId

\* C36: /closewaitlist is all or nothing, also when subscribe handlers run in
\* between: when its handler ends, either the waitlist and all its rows are
\* gone, or the waitlist and every subscriber it had when the command arrived
\* are still there.
C36_CloseAllOrNothing ==
    (reply.kind = "closewaitlist" /\ reply.waitlist # NoWaitlist) =>
        \/ /\ reply.waitlist \notin waitlists
           /\ \A s \in subscribers : s.waitlistId # reply.waitlist.id
        \/ /\ reply.waitlist \in waitlists
           /\ \A i \in 1..Len(reply.subs) : reply.subs[i] \in subscribers

\* C37: the row a /start creates for a deferred subscription belongs to the
\* waitlist row (same id, same owner) that the deferred subscribe command had
\* looked up.
C37_SameWaitlistRecord ==
    \A h \in Records :
        (h.kind = "start" /\ h.created # 0) =>
            /\ h.waitlist.id = h.subscription.resolved
            /\ \A s \in subscribers : s.id = h.created => s.waitlistId = h.subscription.resolved

\* The /unsubscribe a of user 1 in the group, where waitlist 1 lives, has just
\* completed.
UnsubscribeCompleted ==
    /\ reply.kind = "unsubscribe"
    /\ reply.outcome = "unsubscribed"
    /\ reply.user = 1
    /\ reply.waitlist = Waitlist1

NotSubscribedAgain == \A s \in subscribers : ~(s.userId = 1 /\ s.waitlistId = Waitlist1.id)

\* C38: once a user's /unsubscribe for a product has completed, the user is not
\* a subscriber of it in any later state as long as the user issues no new
\* subscribe command; a subscription deferred earlier is not completed by a
\* later /start.  (Under SpecRejoin no subscribe command follows an unsubscribe.)
C38_UnsubscribeLasts == [](UnsubscribeCompleted => []NotSubscribedAgain)

\* A subscribe handler of either kind that has resolved its waitlist, and the
\* stage it is at; the two kinds differ only in the name of the first stage.
Resolved(m) ==
    /\ handlers[m].kind \in {"subscribe", "dynsubscribe"}
    /\ handlers[m].pc \in {"sub_existing", "dyn_existing", "sub_probe", "sub_prompt",
                           "sub_create"}

Stage(pc) == IF pc \in {"sub_existing", "dyn_existing"} THEN "existing" ELSE pc

\* The record of handler m after the step.
After(m) == IF m \in DOMAIN handlers' THEN handlers'[m] ELSE reply'

Contents == <<subscribers, verifiedUsers, registrationMessages, pendingSubscriptions>>

DeferredContents(u, c, id, w) ==
    <<subscribers, verifiedUsers, registrationMessages,
      Put(pendingSubscriptions, u,
          [productName |-> w.name, messageId |-> id, chatId |-> c, resolved |-> w.id])>>

\* What a step at a stage makes of the contents and where the handler goes next,
\* given the sender, the chat, the message, the resolved waitlist and the
\* outcomes of the probe and of the prompt; neither the kind of the command nor
\* the text typed is an argument.
SubscribeEffect(stage, u, c, id, w, probe, prompted) ==
    CASE stage = "existing" ->
           IF \E s \in subscribers : s.waitlistId = w.id /\ s.userId = u
           THEN <<Contents, "done", "already">>
           ELSE IF c > 0 \/ u \in verifiedUsers
           THEN <<Contents, "sub_create", "">>
           ELSE IF u \in DOMAIN registrationMessages
           THEN <<DeferredContents(u, c, id, w), "done", "deferred">>
           ELSE <<Contents, "sub_probe", "">>
      [] stage = "sub_probe" ->
           IF probe = "ok"
           THEN <<<<subscribers, verifiedUsers \cup {u}, registrationMessages,
                    pendingSubscriptions>>, "sub_create", "">>
           ELSE IF probe = "unreachable"
           THEN <<Contents, "sub_prompt", "">>
           ELSE <<DeferredContents(u, c, id, w), "done", "deferred">>
      [] stage = "sub_prompt" ->
           IF prompted # 0
           THEN <<<<subscribers, verifiedUsers,
                    Put(registrationMessages, u, [messageId |-> prompted, chatId |-> c]),
                    DeferredContents(u, c, id, w)[4]>>, "done", "deferred">>
           ELSE <<DeferredContents(u, c, id, w), "done", "deferred">>
      [] stage = "sub_create" ->
           IF \E x \in waitlists : x.id = w.id
           THEN <<<<subscribers \cup {[id |-> nextSubscriberId, waitlistId |-> w.id,
                                       userId |-> u, username |-> UsernameOf(u)]},
                    verifiedUsers, registrationMessages, pendingSubscriptions>>,
                  "done", "subscribed">>
           ELSE <<Contents, "done", "error">>

SameEffectStep ==
    \A m \in DOMAIN handlers :
        (Resolved(m) /\ Steps(m, handlers[m].pc)) =>
            LET h == handlers[m]
            IN  <<Contents', After(m).pc, After(m).outcome>> =
                    SubscribeEffect(Stage(h.pc), h.user, h.chat, h.id, h.waitlist,
                                    After(m).probe, After(m).prompted)

\* C39: once they have resolved the same waitlist, /subscribe <name> and
\* /subscribe_<cmd> are equivalent: every later step of either handler makes of
\* the Subscriber rows, VerifiedUsers, PendingPrompt and PendingSubscription
\* the same function of the current contents, the sender, the chat, the message,
\* the waitlist and the store and transport outcomes, and goes on to the same
\* stage, whichever of the two commands it belongs to.
C39_SameEffect == [][SameEffectStep]_vars

\* A /subscribe_a_b has ended deferred with the name of the waitlist stored,
\* not the text typed, while a /subscribe A b that resolved the same waitlist
\* is in flight.
C39_Witness ==
    /\ reply.kind = "dynsubscribe"
    /\ reply.outcome = "deferred"
    /\ reply.name # reply.waitlist.name
    /\ reply.user \in DOMAIN pendingSubscriptions
    /\ pendingSubscriptions[reply.user].messageId = reply.id
    /\ pendingSubscriptions[reply.user].productName = reply.waitlist.name
    /\ \E m \in DOMAIN handlers :
           /\ handlers[m].kind = "subscribe"
           /\ handlers[m].pc \in {"sub_probe", "sub_prompt", "sub_create"}
           /\ handlers[m].waitlist = reply.waitlist

====
